---------------------------- MODULE Spec2Model ----------------------------
(***************************************************************************)
(* A model of the parlador speech synthesizer (Rust).                      *)
(*                                                                         *)
(* The module holds four state machines over one set of variables:        *)
(*   SpecVoice   voice.rs / synthesizer.rs: the VoiceConfig builder and    *)
(*               the Synthesizer setters                                   *)
(*   SpecEspeak  synthesizer.rs / g2p.rs: the language-code entry points   *)
(*   SpecStream  g2p.rs / formant.rs / streaming.rs / synthesizer.rs:      *)
(*               text -> phonemes -> samples, streaming and one-shot       *)
(*   SpecSsml    ssml.rs / synthesizer.rs: SimpleXmlParser and             *)
(*               synthesize_ssml                                           *)
(*                                                                         *)
(* Text is a sequence of characters (one-character strings; a non-ASCII    *)
(* character has a spelled-out name such as "eacute").  SSML input is a    *)
(* sequence of bytes, because SimpleXmlParser indexes bytes.  Audio is a   *)
(* sequence of runs: a run [tok, sym, lo, hi, pm, fmt] stands for the      *)
(* samples lo+1..hi that the formant synthesizer produces for the tok-th   *)
(* phoneme token sym under pitch modifier pm.  f32 arithmetic on rates and *)
(* durations is modelled by exact rational arithmetic; the voice rates     *)
(* enumerated are ones where both give the same sample counts.             *)
(***************************************************************************)
EXTENDS Integers, Sequences, FiniteSets, TLC

VARIABLES
    voice_builder,  \* voice.rs: the VoiceConfig value of a builder chain
    synth,          \* synthesizer.rs: the Synthesizer (its config)
    last_call,      \* the last operation applied, its argument and result
    streamer,       \* streaming.rs: the StreamingSynthesizer (its config)
    text,           \* the text given to synthesize_stream / synthesize
    stream,         \* streaming.rs: the AudioStream
    chunks,         \* the chunks AudioStream::next has yielded, in order
    audio,          \* the AudioOutput of Synthesizer::synthesize(text)
    ssml,           \* ssml.rs: SimpleXmlParser and synthesize_ssml state
    engines,        \* synthesizer.rs: two Synthesizer values side by side
    call_log,       \* the calls made so far with what each returned, in order
    g2p             \* g2p.rs: a G2PConverter under construction

vars ==
    <<voice_builder, synth, last_call, streamer, text, stream, chunks, audio, ssml,
      engines, call_log, g2p>>

\* ------------------------------------------------------------------------
\* Generic helpers
\* ------------------------------------------------------------------------

Min(a, b) == IF a < b THEN a ELSE b
Max(a, b) == IF a > b THEN a ELSE b

\* Ord::clamp(lo, hi)
Clamp(x, lo, hi) == IF x < lo THEN lo ELSE IF x > hi THEN hi ELSE x

\* The sum of a sequence of numbers (by halves, to keep the recursion shallow)
RECURSIVE SeqSum(_)
SeqSum(s) ==
    IF s = <<>> THEN 0
    ELSE IF Len(s) = 1 THEN s[1]
    ELSE LET half == Len(s) \div 2
         IN SeqSum(SubSeq(s, 1, half)) + SeqSum(SubSeq(s, half + 1, Len(s)))

\* The concatenation of a sequence of sequences
RECURSIVE Flatten(_)
Flatten(ss) ==
    IF ss = <<>> THEN <<>>
    ELSE IF Len(ss) = 1 THEN ss[1]
    ELSE LET half == Len(ss) \div 2
         IN Flatten(SubSeq(ss, 1, half)) \o Flatten(SubSeq(ss, half + 1, Len(ss)))

\* All sequences over alphabet S of length at most n.
SeqsUpTo(S, n) == UNION {[1..k -> S] : k \in 0..n}

StartsWith(s, p) == Len(p) <= Len(s) /\ SubSeq(s, 1, Len(p)) = p
EndsWith(s, p) == Len(p) <= Len(s) /\ SubSeq(s, Len(s) - Len(p) + 1, Len(s)) = p

\* ------------------------------------------------------------------------
\* Rational arithmetic for the f32 quantities (pitch, rate, volume, position)
\* ------------------------------------------------------------------------

\* A rational number is a pair <<numerator, denominator>>, denominator > 0.
RatLe(a, b) == a[1] * b[2] <= b[1] * a[2]
RatLt(a, b) == a[1] * b[2] < b[1] * a[2]
RatMin(a, b) == IF RatLe(a, b) THEN a ELSE b

RECURSIVE Gcd(_, _)
Gcd(a, b) == IF b = 0 THEN a ELSE Gcd(b, a % b)

Abs(x) == IF x < 0 THEN -x ELSE x

\* The canonical form of a rational: lowest terms, positive denominator.
\* A zero denominator (a division by 0.0) is kept: <<1, 0>> is +inf.
RatNorm(a) ==
    LET g == Gcd(Abs(a[1]), Abs(a[2]))
        sign == IF a[2] < 0 THEN -1 ELSE 1
    IN IF g = 0 THEN a ELSE <<(sign * a[1]) \div g, (sign * a[2]) \div g>>

Rat(n, d) == RatNorm(<<n, d>>)
RatTimes(a, b) == RatNorm(<<a[1] * b[1], a[2] * b[2]>>)
RatPlus(a, b) == RatNorm(<<a[1] * b[2] + b[1] * a[2], a[2] * b[2]>>)
RatMinus(a, b) == RatNorm(<<a[1] * b[2] - b[1] * a[2], a[2] * b[2]>>)
RatOver(a, b) == RatNorm(<<a[1] * b[2], a[2] * b[1]>>)
RatClamp(x, lo, hi) == IF RatLt(x, lo) THEN lo ELSE IF RatLt(hi, x) THEN hi ELSE x

\* ------------------------------------------------------------------------
\* Characters (char::to_lowercase, is_alphabetic, is_whitespace, len_utf8)
\* ------------------------------------------------------------------------

LowerAscii == <<"a","b","c","d","e","f","g","h","i","j","k","l","m",
                "n","o","p","q","r","s","t","u","v","w","x","y","z">>
UpperAscii == <<"A","B","C","D","E","F","G","H","I","J","K","L","M",
                "N","O","P","Q","R","S","T","U","V","W","X","Y","Z">>
LowerAccented == <<"aacute","eacute","iacute","oacute","uacute","uuml","ntilde">>
UpperAccented == <<"Aacute","Eacute","Iacute","Oacute","Uacute","Uuml","Ntilde">>
Digits == {"0","1","2","3","4","5","6","7","8","9"}
Whitespace == {" "}

Range(s) == {s[i] : i \in DOMAIN s}

ToLowerChar(c) ==
    IF c \in Range(UpperAscii)
    THEN LowerAscii[CHOOSE i \in DOMAIN UpperAscii : UpperAscii[i] = c]
    ELSE IF c \in Range(UpperAccented)
    THEN LowerAccented[CHOOSE i \in DOMAIN UpperAccented : UpperAccented[i] = c]
    ELSE c

\* str::to_lowercase
ToLowercase(s) == [i \in DOMAIN s |-> ToLowerChar(s[i])]

IsAlphabetic(c) ==
    c \in Range(LowerAscii) \cup Range(UpperAscii)
          \cup Range(LowerAccented) \cup Range(UpperAccented)

IsWhitespace(c) == c \in Whitespace

\* The UTF-8 encoding of a character.  A byte is written as the ASCII
\* character it encodes, or as "xHH" when it is not ASCII.
Utf8Bytes(c) ==
    CASE c = "aacute" -> <<"xC3", "xA1">>
      [] c = "eacute" -> <<"xC3", "xA9">>
      [] c = "iacute" -> <<"xC3", "xAD">>
      [] c = "oacute" -> <<"xC3", "xB3">>
      [] c = "uacute" -> <<"xC3", "xBA">>
      [] c = "uuml"   -> <<"xC3", "xBC">>
      [] c = "ntilde" -> <<"xC3", "xB1">>
      [] c = "Aacute" -> <<"xC3", "x81">>
      [] c = "Eacute" -> <<"xC3", "x89">>
      [] c = "Iacute" -> <<"xC3", "x8D">>
      [] c = "Oacute" -> <<"xC3", "x93">>
      [] c = "Uacute" -> <<"xC3", "x9A">>
      [] c = "Uuml"   -> <<"xC3", "x9C">>
      [] c = "Ntilde" -> <<"xC3", "x91">>
      [] c = "iquest" -> <<"xC2", "xBF">>
      [] c = "iexcl"  -> <<"xC2", "xA1">>
      [] OTHER -> <<c>>

\* char::len_utf8 for the characters of the model
Utf8Len(c) == Len(Utf8Bytes(c))

\* str::len (bytes)
ByteLen(s) == SeqSum([i \in DOMAIN s |-> Utf8Len(s[i])])

\* ------------------------------------------------------------------------
\* voice.rs
\* ------------------------------------------------------------------------

Languages == {"English", "Spanish"}

\* Language::code
LanguageCode(l) == IF l = "English" THEN <<"e","n">> ELSE <<"e","s">>

EnglishCodes == { <<"e","n">>, <<"e","n","g">>, <<"e","n","g","l","i","s","h">>,
                  <<"e","n","-","u","s">>, <<"e","n","-","g","b">> }
SpanishCodes == { <<"e","s">>, <<"s","p","a">>, <<"s","p","a","n","i","s","h">>,
                  <<"e","s","-","e","s">>, <<"e","s","-","m","x">> }

\* Language::from_code: Some(language) as <<language>>, None as <<>>
FromCode(code) ==
    LET lc == ToLowercase(code) IN
    IF lc \in EnglishCodes THEN <<"English">>
    ELSE IF lc \in SpanishCodes THEN <<"Spanish">>
    ELSE <<>>

\* VoiceVariant::base_pitch_hz
BasePitchHz(v) ==
    CASE v = "Default" -> 130
      [] v = "Male1" -> 100
      [] v = "Male2" -> 120
      [] v = "Male3" -> 140
      [] v = "Female1" -> 180
      [] v = "Female2" -> 200
      [] v = "Female3" -> 220

\* VoiceConfig::new
VoiceConfigNew(language) ==
    [language |-> language, variant |-> "Default", rate |-> 175, pitch |-> 0,
     volume |-> 100]

\* A faulty with_rate, for comparison: the rate stored as given
NoClampRate(c, rate) == [c EXCEPT !.rate = rate]

\* VoiceConfig::with_rate (u32 argument)
WithRate(c, rate) == [c EXCEPT !.rate = Clamp(rate, 50, 500)]

\* VoiceConfig::with_pitch (i8 argument)
WithPitch(c, pitch) == [c EXCEPT !.pitch = Clamp(pitch, -100, 100)]

\* VoiceConfig::with_volume (u8 argument)
WithVolume(c, volume) == [c EXCEPT !.volume = Min(volume, 200)]

\* VoiceConfig::effective_pitch_hz = base * (1 + pitch/100 * 0.5)
EffectivePitchHz(c) == Rat(BasePitchHz(c.variant) * (200 + c.pitch), 200)

\* VoiceConfig::rate_multiplier = rate / 175
RateMultiplier(c) == Rat(c.rate, 175)

\* VoiceConfig::volume_level = volume / 100
VolumeLevel(c) == Rat(c.volume, 100)

\* ------------------------------------------------------------------------
\* phoneme.rs: the phoneme inventories
\* ------------------------------------------------------------------------

\* struct Phoneme: symbol, category, duration_ms, formants.is_some()
Phoneme(symbol, category, duration_ms, has_formants) ==
    [symbol |-> symbol, category |-> category, duration_ms |-> duration_ms,
     has_formants |-> has_formants]

\* PhonemeInventory::english: the phonemes inserted
EnglishPhonemeList ==
    << Phoneme("i", "Vowel", 120, TRUE),
       Phoneme("I", "Vowel", 100, TRUE),
       Phoneme("e", "Diphthong", 140, TRUE),
       Phoneme("E", "Vowel", 100, TRUE),
       Phoneme("&", "Vowel", 120, TRUE),
       Phoneme("A", "Vowel", 130, TRUE),
       Phoneme("O", "Vowel", 120, TRUE),
       Phoneme("o", "Diphthong", 140, TRUE),
       Phoneme("U", "Vowel", 100, TRUE),
       Phoneme("u", "Vowel", 120, TRUE),
       Phoneme("@", "Vowel", 80, TRUE),
       Phoneme("3", "Vowel", 120, TRUE),
       Phoneme("aI", "Diphthong", 180, TRUE),
       Phoneme("aU", "Diphthong", 180, TRUE),
       Phoneme("OI", "Diphthong", 180, TRUE),
       Phoneme("p", "Plosive", 60, FALSE),
       Phoneme("b", "Plosive", 60, FALSE),
       Phoneme("t", "Plosive", 60, FALSE),
       Phoneme("d", "Plosive", 60, FALSE),
       Phoneme("k", "Plosive", 60, FALSE),
       Phoneme("g", "Plosive", 60, FALSE),
       Phoneme("f", "Fricative", 80, FALSE),
       Phoneme("v", "Fricative", 80, FALSE),
       Phoneme("T", "Fricative", 80, FALSE),
       Phoneme("D", "Fricative", 80, FALSE),
       Phoneme("s", "Fricative", 90, FALSE),
       Phoneme("z", "Fricative", 90, FALSE),
       Phoneme("S", "Fricative", 100, FALSE),
       Phoneme("Z", "Fricative", 100, FALSE),
       Phoneme("h", "Fricative", 60, FALSE),
       Phoneme("tS", "Affricate", 110, FALSE),
       Phoneme("dZ", "Affricate", 110, FALSE),
       Phoneme("m", "Nasal", 80, TRUE),
       Phoneme("n", "Nasal", 80, TRUE),
       Phoneme("N", "Nasal", 80, TRUE),
       Phoneme("l", "Lateral", 70, TRUE),
       Phoneme("r", "Rhotic", 70, TRUE),
       Phoneme("w", "Approximant", 60, TRUE),
       Phoneme("j", "Approximant", 60, TRUE),
       Phoneme("_", "Silence", 100, FALSE) >>

\* PhonemeInventory::spanish: the phonemes inserted
SpanishPhonemeList ==
    << Phoneme("a", "Vowel", 100, TRUE),
       Phoneme("e", "Vowel", 100, TRUE),
       Phoneme("i", "Vowel", 100, TRUE),
       Phoneme("o", "Vowel", 100, TRUE),
       Phoneme("u", "Vowel", 100, TRUE),
       Phoneme("p", "Plosive", 60, FALSE),
       Phoneme("b", "Plosive", 60, FALSE),
       Phoneme("t", "Plosive", 60, FALSE),
       Phoneme("d", "Plosive", 60, FALSE),
       Phoneme("k", "Plosive", 60, FALSE),
       Phoneme("g", "Plosive", 60, FALSE),
       Phoneme("f", "Fricative", 80, FALSE),
       Phoneme("s", "Fricative", 90, FALSE),
       Phoneme("x", "Fricative", 80, FALSE),
       Phoneme("T", "Fricative", 80, FALSE),
       Phoneme("tS", "Affricate", 100, FALSE),
       Phoneme("m", "Nasal", 80, TRUE),
       Phoneme("n", "Nasal", 80, TRUE),
       Phoneme("J", "Nasal", 80, TRUE),
       Phoneme("l", "Lateral", 70, TRUE),
       Phoneme("L", "Lateral", 80, TRUE),
       Phoneme("r", "Rhotic", 40, TRUE),
       Phoneme("rr", "Rhotic", 120, TRUE),
       Phoneme("j", "Approximant", 60, TRUE),
       Phoneme("w", "Approximant", 60, TRUE),
       Phoneme("_", "Silence", 100, FALSE) >>

\* The HashMap the inserts build: symbol -> Phoneme, a later insert of the
\* same symbol replacing the earlier one.
PhonemeMap(list) ==
    [s \in {list[i].symbol : i \in DOMAIN list} |->
        list[CHOOSE i \in DOMAIN list :
                /\ list[i].symbol = s
                /\ \A j \in DOMAIN list : list[j].symbol = s => j <= i]]

\* PhonemeInventory::english / PhonemeInventory::spanish
InventoryEnglish == [language |-> "en", phonemes |-> PhonemeMap(EnglishPhonemeList)]
InventorySpanish == [language |-> "es", phonemes |-> PhonemeMap(SpanishPhonemeList)]

\* PhonemeInventory::get: Some(phoneme) as <<phoneme>>, None as <<>>
InventoryGet(inventory, symbol) ==
    IF symbol \in DOMAIN inventory.phonemes THEN <<inventory.phonemes[symbol]>> ELSE <<>>

\* ------------------------------------------------------------------------
\* g2p.rs: grapheme-to-phoneme conversion
\*
\* A phoneme string is modelled by the sequence of its whitespace-separated
\* tokens: "" is <<>>, "D @" is <<"D", "@">>; join(" ") is concatenation and
\* split_whitespace is the identity on it.
\* ------------------------------------------------------------------------

\* struct G2PRule
G2PRule(pattern, left_context, right_context, phonemes, priority) ==
    [pattern |-> pattern, left_context |-> left_context,
     right_context |-> right_context, phonemes |-> phonemes, priority |-> priority]

\* G2PConverter::load_english_rules: the add_rule calls, in order
EnglishRuleList ==
    << G2PRule(<<"a">>, "", "e$", <<"e">>, 10),
       G2PRule(<<"a">>, "", "", <<"&">>, 1),
       G2PRule(<<"e">>, "", "e$", <<"i">>, 10),
       G2PRule(<<"e">>, "", "$", <<>>, 5),
       G2PRule(<<"e">>, "", "", <<"E">>, 1),
       G2PRule(<<"i">>, "", "e$", <<"aI">>, 10),
       G2PRule(<<"i">>, "", "", <<"I">>, 1),
       G2PRule(<<"o">>, "", "e$", <<"o">>, 10),
       G2PRule(<<"o">>, "", "", <<"A">>, 1),
       G2PRule(<<"u">>, "", "e$", <<"u">>, 10),
       G2PRule(<<"u">>, "", "", <<"@">>, 1),
       G2PRule(<<"c", "h">>, "", "", <<"tS">>, 20),
       G2PRule(<<"s", "h">>, "", "", <<"S">>, 20),
       G2PRule(<<"t", "h">>, "", "", <<"T">>, 15),
       G2PRule(<<"n", "g">>, "", "", <<"N">>, 20),
       G2PRule(<<"p", "h">>, "", "", <<"f">>, 20),
       G2PRule(<<"w", "h">>, "", "", <<"w">>, 15),
       G2PRule(<<"c", "k">>, "", "", <<"k">>, 20),
       G2PRule(<<"g", "h", "t">>, "", "", <<"t">>, 25),
       G2PRule(<<"g", "h">>, "", "", <<>>, 20),
       G2PRule(<<"b">>, "", "", <<"b">>, 1),
       G2PRule(<<"c">>, "", "[ei]", <<"s">>, 10),
       G2PRule(<<"c">>, "", "", <<"k">>, 1),
       G2PRule(<<"d">>, "", "", <<"d">>, 1),
       G2PRule(<<"f">>, "", "", <<"f">>, 1),
       G2PRule(<<"g">>, "", "[ei]", <<"dZ">>, 8),
       G2PRule(<<"g">>, "", "", <<"g">>, 1),
       G2PRule(<<"h">>, "", "", <<"h">>, 1),
       G2PRule(<<"j">>, "", "", <<"dZ">>, 1),
       G2PRule(<<"k">>, "", "", <<"k">>, 1),
       G2PRule(<<"l">>, "", "", <<"l">>, 1),
       G2PRule(<<"m">>, "", "", <<"m">>, 1),
       G2PRule(<<"n">>, "", "", <<"n">>, 1),
       G2PRule(<<"p">>, "", "", <<"p">>, 1),
       G2PRule(<<"q", "u">>, "", "", <<"kw">>, 15),
       G2PRule(<<"r">>, "", "", <<"r">>, 1),
       G2PRule(<<"s">>, "", "", <<"s">>, 1),
       G2PRule(<<"t">>, "", "", <<"t">>, 1),
       G2PRule(<<"v">>, "", "", <<"v">>, 1),
       G2PRule(<<"w">>, "", "", <<"w">>, 1),
       G2PRule(<<"x">>, "", "", <<"ks">>, 1),
       G2PRule(<<"y">>, "^", "", <<"j">>, 10),
       G2PRule(<<"y">>, "", "", <<"i">>, 1),
       G2PRule(<<"z">>, "", "", <<"z">>, 1),
       G2PRule(<<"e", "a">>, "", "", <<"i">>, 15),
       G2PRule(<<"e", "e">>, "", "", <<"i">>, 15),
       G2PRule(<<"o", "o">>, "", "", <<"u">>, 15),
       G2PRule(<<"o", "u">>, "", "", <<"aU">>, 15),
       G2PRule(<<"o", "w">>, "", "", <<"aU">>, 10),
       G2PRule(<<"o", "i">>, "", "", <<"OI">>, 15),
       G2PRule(<<"o", "y">>, "", "", <<"OI">>, 15),
       G2PRule(<<"a", "i">>, "", "", <<"e">>, 15),
       G2PRule(<<"a", "y">>, "", "", <<"e">>, 15),
       G2PRule(<<"a", "u">>, "", "", <<"O">>, 15),
       G2PRule(<<"a", "w">>, "", "", <<"O">>, 15) >>

\* G2PConverter::load_english_exceptions: <<word, phonemes>>
EnglishExceptionList ==
    << <<<<"t", "h", "e">>, <<"D", "@">>>>,
       <<<<"a">>, <<"@">>>>,
       <<<<"i", "s">>, <<"I", "z">>>>,
       <<<<"a", "r", "e">>, <<"A", "r">>>>,
       <<<<"w", "a", "s">>, <<"w", "A", "z">>>>,
       <<<<"w", "e", "r", "e">>, <<"w", "3", "r">>>>,
       <<<<"h", "a", "v", "e">>, <<"h", "&", "v">>>>,
       <<<<"h", "a", "s">>, <<"h", "&", "z">>>>,
       <<<<"h", "a", "d">>, <<"h", "&", "d">>>>,
       <<<<"d", "o">>, <<"d", "u">>>>,
       <<<<"d", "o", "e", "s">>, <<"d", "@", "z">>>>,
       <<<<"d", "i", "d">>, <<"d", "I", "d">>>>,
       <<<<"t", "o">>, <<"t", "u">>>>,
       <<<<"o", "f">>, <<"@", "v">>>>,
       <<<<"f", "o", "r">>, <<"f", "O", "r">>>>,
       <<<<"w", "i", "t", "h">>, <<"w", "I", "T">>>>,
       <<<<"y", "o", "u">>, <<"j", "u">>>>,
       <<<<"t", "h", "i", "s">>, <<"D", "I", "s">>>>,
       <<<<"t", "h", "a", "t">>, <<"D", "&", "t">>>>,
       <<<<"o", "n", "e">>, <<"w", "@", "n">>>>,
       <<<<"t", "w", "o">>, <<"t", "u">>>>,
       <<<<"h", "e", "l", "l", "o">>, <<"h", "E", "l", "o">>>>,
       <<<<"w", "o", "r", "l", "d">>, <<"w", "3", "r", "l", "d">>>> >>

\* G2PConverter::load_spanish_rules: the add_rule calls, in order
SpanishRuleList ==
    << G2PRule(<<"a">>, "", "", <<"a">>, 1),
       G2PRule(<<"e">>, "", "", <<"e">>, 1),
       G2PRule(<<"i">>, "", "", <<"i">>, 1),
       G2PRule(<<"o">>, "", "", <<"o">>, 1),
       G2PRule(<<"u">>, "", "", <<"u">>, 1),
       G2PRule(<<"aacute">>, "", "", <<"a">>, 1),
       G2PRule(<<"eacute">>, "", "", <<"e">>, 1),
       G2PRule(<<"iacute">>, "", "", <<"i">>, 1),
       G2PRule(<<"oacute">>, "", "", <<"o">>, 1),
       G2PRule(<<"uacute">>, "", "", <<"u">>, 1),
       G2PRule(<<"uuml">>, "", "", <<"u">>, 1),
       G2PRule(<<"c", "h">>, "", "", <<"tS">>, 20),
       G2PRule(<<"l", "l">>, "", "", <<"L">>, 20),
       G2PRule(<<"r", "r">>, "", "", <<"rr">>, 20),
       G2PRule(<<"ntilde">>, "", "", <<"J">>, 20),
       G2PRule(<<"q", "u">>, "", "[ei]", <<"k">>, 20),
       G2PRule(<<"g", "u">>, "", "[ei]", <<"g">>, 20),
       G2PRule(<<"c">>, "", "[ei]", <<"T">>, 10),
       G2PRule(<<"c">>, "", "", <<"k">>, 1),
       G2PRule(<<"g">>, "", "[ei]", <<"x">>, 10),
       G2PRule(<<"g">>, "", "", <<"g">>, 1),
       G2PRule(<<"b">>, "", "", <<"b">>, 1),
       G2PRule(<<"d">>, "", "", <<"d">>, 1),
       G2PRule(<<"f">>, "", "", <<"f">>, 1),
       G2PRule(<<"h">>, "", "", <<>>, 1),
       G2PRule(<<"j">>, "", "", <<"x">>, 1),
       G2PRule(<<"k">>, "", "", <<"k">>, 1),
       G2PRule(<<"l">>, "", "", <<"l">>, 1),
       G2PRule(<<"m">>, "", "", <<"m">>, 1),
       G2PRule(<<"n">>, "", "", <<"n">>, 1),
       G2PRule(<<"p">>, "", "", <<"p">>, 1),
       G2PRule(<<"r">>, "^", "", <<"rr">>, 5),
       G2PRule(<<"r">>, "", "", <<"r">>, 1),
       G2PRule(<<"s">>, "", "", <<"s">>, 1),
       G2PRule(<<"t">>, "", "", <<"t">>, 1),
       G2PRule(<<"v">>, "", "", <<"b">>, 1),
       G2PRule(<<"w">>, "", "", <<"w">>, 1),
       G2PRule(<<"x">>, "", "", <<"ks">>, 1),
       G2PRule(<<"y">>, "", "$", <<"i">>, 10),
       G2PRule(<<"y">>, "", "", <<"j">>, 1),
       G2PRule(<<"z">>, "", "", <<"T">>, 1) >>

\* The comparator of add_rule's sort_by: a orders strictly before b when its
\* priority is higher or, at equal priority, its pattern has more bytes.
RuleOrdersBefore(a, b) ==
    \/ a.priority > b.priority
    \/ a.priority = b.priority /\ ByteLen(a.pattern) > ByteLen(b.pattern)

\* slice::sort_by is stable: a rule goes after every rule it does not order
\* strictly before.
RECURSIVE InsertSorted(_, _)
InsertSorted(sorted, rule) ==
    IF sorted = <<>> THEN <<rule>>
    ELSE IF RuleOrdersBefore(rule, Head(sorted)) THEN <<rule>> \o sorted
    ELSE <<Head(sorted)>> \o InsertSorted(Tail(sorted), rule)

RECURSIVE SortRules(_)
SortRules(rules) ==
    IF rules = <<>> THEN <<>>
    ELSE InsertSorted(SortRules(SubSeq(rules, 1, Len(rules) - 1)), rules[Len(rules)])

\* G2PConverter::add_rule: the key of the rule's bucket
RuleKey(rule) == IF rule.pattern = <<>> THEN "?" ELSE rule.pattern[1]

\* An add_rule that pushes the rule and leaves the bucket as it is
AddRulePushOnly(bucket, rule) == Append(bucket, rule)

\* G2PConverter::add_rule on the rule's bucket: push, then sort_by
AddRule(bucket, rule) == SortRules(Append(bucket, rule))

\* The bucket that the add_rule calls for one key build, in call order
RECURSIVE BuildBucket(_)
BuildBucket(calls) ==
    IF calls = <<>> THEN <<>>
    ELSE AddRule(BuildBucket(SubSeq(calls, 1, Len(calls) - 1)), calls[Len(calls)])

\* The rules map after the add_rule calls of list: first character -> bucket
LoadRules(list) ==
    [key \in {RuleKey(list[i]) : i \in DOMAIN list} |->
        BuildBucket(SelectSeq(list, LAMBDA r : RuleKey(r) = key))]

\* The exceptions HashMap: word -> phonemes
ExceptionMap(list) ==
    [w \in {list[i][1] : i \in DOMAIN list} |->
        list[CHOOSE i \in DOMAIN list :
                /\ list[i][1] = w
                /\ \A j \in DOMAIN list : list[j][1] = w => j <= i][2]]

EnglishRules == LoadRules(EnglishRuleList)
SpanishRules == LoadRules(SpanishRuleList)
EnglishExceptions == ExceptionMap(EnglishExceptionList)

\* G2PConverter::english / G2PConverter::spanish
G2PEnglish ==
    [language |-> "en", inventory |-> InventoryEnglish, rules |-> EnglishRules,
     exceptions |-> EnglishExceptions]
G2PSpanish ==
    [language |-> "es", inventory |-> InventorySpanish, rules |-> SpanishRules,
     exceptions |-> <<>>]

\* G2PConverter::normalize
Normalize(t) ==
    SelectSeq(ToLowercase(t),
              LAMBDA c : IsAlphabetic(c) \/ IsWhitespace(c) \/ c = "'" \/ c = "-")

\* str::split_whitespace
RECURSIVE SplitWhitespace(_)
SplitWhitespace(s) ==
    IF s = <<>> THEN <<>>
    ELSE IF IsWhitespace(Head(s)) THEN SplitWhitespace(Tail(s))
    ELSE LET ends == {i \in DOMAIN s : IsWhitespace(s[i])}
             n == IF ends = {} THEN Len(s) + 1
                  ELSE CHOOSE i \in ends : \A j \in ends : i <= j
         IN <<SubSeq(s, 1, n - 1)>> \o SplitWhitespace(SubSeq(s, n, Len(s)))

\* G2PConverter::check_left_context
CheckLeftContext(context, chars, pos) ==
    IF context = "" THEN TRUE
    ELSE IF context = "^" THEN pos = 0
    ELSE TRUE

\* G2PConverter::check_right_context; pattern_len is the pattern's length in
\* bytes, used as a count of characters.
CheckRightContext(context, remaining, pattern_len) ==
    IF context = "" THEN TRUE
    ELSE LET after_pattern == SubSeq(remaining, pattern_len + 1, Len(remaining))
         IN IF context = "$" THEN after_pattern = <<>>
            ELSE IF context = "[ei]"
            THEN after_pattern # <<>> /\ Head(after_pattern) \in {"e", "i"}
            ELSE IF context = "e$" THEN after_pattern = <<"e">>
            ELSE TRUE

\* G2PConverter::apply_rules at the 0-based position pos: the first rule of
\* the character's bucket whose pattern and contexts match, else the fallback.
ApplyRules(g, chars, pos, remaining) ==
    LET current_char == chars[pos + 1]
        rules == IF current_char \in DOMAIN g.rules THEN g.rules[current_char] ELSE <<>>
        matching == {k \in DOMAIN rules :
                        /\ StartsWith(remaining, rules[k].pattern)
                        /\ CheckLeftContext(rules[k].left_context, chars, pos)
                        /\ CheckRightContext(rules[k].right_context, remaining,
                                             ByteLen(rules[k].pattern))}
    IN IF matching = {} THEN [phonemes |-> <<>>, consumed |-> 1]
       ELSE LET k == CHOOSE i \in matching : \A j \in matching : i <= j
            IN [phonemes |-> rules[k].phonemes, consumed |-> Len(rules[k].pattern)]

\* The while loop of convert_word from the 0-based position i
RECURSIVE ConvertWordFrom(_, _, _)
ConvertWordFrom(g, chars, i) ==
    IF i >= Len(chars) THEN <<>>
    ELSE LET r == ApplyRules(g, chars, i, SubSeq(chars, i + 1, Len(chars)))
         IN r.phonemes \o ConvertWordFrom(g, chars, i + r.consumed)

\* A convert_word that does not look the word up in the exceptions
ConvertWordRulesOnly(g, word) == ConvertWordFrom(g, word, 0)

\* G2PConverter::convert_word
ConvertWord(g, word) ==
    IF word \in DOMAIN g.exceptions THEN g.exceptions[word]
    ELSE ConvertWordFrom(g, word, 0)

\* Vec<String>::join(" _ ") over the non-empty word results
RECURSIVE JoinWords(_)
JoinWords(ws) ==
    IF ws = <<>> THEN <<>>
    ELSE IF Len(ws) = 1 THEN ws[1]
    ELSE ws[1] \o <<"_">> \o JoinWords(Tail(ws))

\* A convert that pushes every word's result, empty or not
ConvertKeepEmpty(g, t) ==
    LET words == SplitWhitespace(Normalize(t))
    IN JoinWords([i \in DOMAIN words |-> ConvertWord(g, words[i])])

\* A convert that returns a pause when no word produced phonemes
ConvertPauseForNothing(g, t) ==
    LET words == SplitWhitespace(Normalize(t))
        converted == [i \in DOMAIN words |-> ConvertWord(g, words[i])]
        kept == SelectSeq(converted, LAMBDA p : p # <<>>)
    IN IF kept = <<>> THEN <<"_">> ELSE JoinWords(kept)

\* G2PConverter::convert
Convert(g, t) ==
    LET words == SplitWhitespace(Normalize(t))
        converted == [i \in DOMAIN words |-> ConvertWord(g, words[i])]
    IN JoinWords(SelectSeq(converted, LAMBDA p : p # <<>>))

\* Synthesizer::get_g2p / StreamingSynthesizer::get_g2p
GetG2P(language) == IF language = "English" THEN G2PEnglish ELSE G2PSpanish

\* A faulty lookup, for comparison: the other language's inventory
GetInventoryOther(language) ==
    IF language = "English" THEN InventorySpanish ELSE InventoryEnglish

\* Synthesizer::get_inventory / StreamingSynthesizer::get_inventory
GetInventory(language) == IF language = "English" THEN InventoryEnglish ELSE InventorySpanish

\* The IPA string of an inventory phoneme, as an opaque value
Ipa(phoneme) == <<"ipa", phoneme.symbol>>

\* text_to_ipa: Err(UnsupportedLanguage) or Ok(the joined IPA pieces)
TextToIpa(t, language) ==
    IF language \notin {<<"e","n">>, <<"e","n","g","l","i","s","h">>,
                        <<"e","s">>, <<"s","p","a","n","i","s","h">>}
    THEN [ok |-> FALSE, error |-> "UnsupportedLanguage", value |-> language]
    ELSE LET converter == IF language \in {<<"e","n">>, <<"e","n","g","l","i","s","h">>}
                          THEN G2PEnglish ELSE G2PSpanish
             phonemes == Convert(converter, t)
         IN [ok |-> TRUE, error |-> "",
             value |-> [i \in DOMAIN phonemes |->
                          IF phonemes[i] = "_" THEN <<" ">>
                          ELSE IF InventoryGet(converter.inventory, phonemes[i]) # <<>>
                          THEN Ipa(InventoryGet(converter.inventory, phonemes[i])[1])
                          ELSE <<phonemes[i]>>]]

\* ------------------------------------------------------------------------
\* prosody.rs
\* ------------------------------------------------------------------------

IsUppercase(c) == c \in Range(UpperAscii) \cup Range(UpperAccented)

\* str::trim_start / str::trim
RECURSIVE TrimStart(_)
TrimStart(s) ==
    IF s # <<>> /\ IsWhitespace(Head(s)) THEN TrimStart(Tail(s)) ELSE s

RECURSIVE TrimEnd(_)
TrimEnd(s) ==
    IF s # <<>> /\ IsWhitespace(s[Len(s)]) THEN TrimEnd(SubSeq(s, 1, Len(s) - 1)) ELSE s

Trim(s) == TrimEnd(TrimStart(s))

\* str::trim_start_matches(|c| !c.is_alphabetic())
RECURSIVE TrimStartNonAlphabetic(_)
TrimStartNonAlphabetic(s) ==
    IF s # <<>> /\ ~IsAlphabetic(Head(s)) THEN TrimStartNonAlphabetic(Tail(s)) ELSE s

\* The wh_words of SentenceType::detect
WhWords ==
    { <<"w","h","a","t">>, <<"w","h","o">>, <<"w","h","e","r","e">>,
      <<"w","h","e","n">>, <<"w","h","y">>, <<"h","o","w">>,
      <<"w","h","i","c","h">>, <<"w","h","o","s","e">>,
      <<"q","u","eacute">>, <<"q","u","i","eacute","n">>,
      <<"d","oacute","n","d","e">>, <<"c","u","aacute","n","d","o">>,
      <<"p","o","r"," ","q","u","eacute">>, <<"c","oacute","m","o">>,
      <<"c","u","aacute","l">> }

\* SentenceType::detect
SentenceTypeDetect(t) ==
    LET trimmed == Trim(t) IN
    IF EndsWith(trimmed, <<"?">>) \/ StartsWith(trimmed, <<"iquest">>)
    THEN LET content == TrimStartNonAlphabetic(ToLowercase(trimmed))
         IN IF \E w \in WhWords : StartsWith(content, w)
            THEN "WhQuestion" ELSE "Question"
    ELSE IF EndsWith(trimmed, <<"!">>) \/ StartsWith(trimmed, <<"iexcl">>)
    THEN "Exclamation"
    ELSE "Statement"

\* ProsodyConfig::default
ProsodyConfigDefault ==
    [pitch_multiplier |-> <<1, 1>>, rate_multiplier |-> <<1, 1>>,
     volume_multiplier |-> <<1, 1>>, contour |-> "Flat", emphasis |-> <<0, 1>>]

\* ProsodyConfig::with_pitch / with_volume / with_contour / with_emphasis
ProsodyWithPitch(p, m) ==
    [p EXCEPT !.pitch_multiplier = RatClamp(m, <<1, 2>>, <<2, 1>>)]
ProsodyWithVolume(p, m) ==
    [p EXCEPT !.volume_multiplier = RatClamp(m, <<0, 1>>, <<2, 1>>)]
ProsodyWithContour(p, contour) == [p EXCEPT !.contour = contour]
ProsodyWithEmphasis(p, e) ==
    [p EXCEPT !.emphasis = RatClamp(e, <<0, 1>>, <<1, 1>>)]

\* ProsodyConfig::from_sentence_type
FromSentenceType(st) ==
    CASE st = "Statement" -> ProsodyWithContour(ProsodyConfigDefault, "Falling")
      [] st = "Question" ->
            ProsodyWithPitch(ProsodyWithContour(ProsodyConfigDefault, "Rising"), <<11, 10>>)
      [] st = "WhQuestion" -> ProsodyWithContour(ProsodyConfigDefault, "FallingRising")
      [] st = "Exclamation" ->
            ProsodyWithVolume(
                ProsodyWithEmphasis(ProsodyWithContour(ProsodyConfigDefault, "Emphasized"),
                                    <<1, 2>>),
                <<6, 5>>)
      [] st = "Command" ->
            ProsodyWithEmphasis(ProsodyWithContour(ProsodyConfigDefault, "Flat"), <<3, 10>>)

\* A pitch that ignores the contour and the emphasis
PitchAtPositionFlat(p, position) == p.pitch_multiplier

\* ProsodyConfig::pitch_at_position
PitchAtPosition(p, position) ==
    LET pos == RatClamp(position, <<0, 1>>, <<1, 1>>)
        half == <<1, 2>>
        contour_modifier ==
            CASE p.contour = "Flat" -> <<1, 1>>
              [] p.contour = "Rising" ->
                    RatPlus(<<1, 1>>, RatTimes(<<3, 10>>, RatTimes(pos, pos)))
              [] p.contour = "Falling" ->
                    RatMinus(<<11, 10>>, RatTimes(<<3, 20>>, pos))
              [] p.contour = "FallingRising" ->
                    IF RatLt(pos, half)
                    THEN RatMinus(<<21, 20>>, RatTimes(<<3, 20>>, RatOver(pos, half)))
                    ELSE RatPlus(<<9, 10>>,
                                 RatTimes(<<1, 5>>, RatOver(RatMinus(pos, half), half)))
              [] p.contour = "Emphasized" ->
                    IF RatLt(pos, <<3, 10>>)
                    THEN RatMinus(<<6, 5>>, RatTimes(<<1, 5>>, RatOver(pos, <<3, 10>>)))
                    ELSE IF RatLt(pos, <<4, 5>>)
                    THEN RatMinus(<<1, 1>>,
                                  RatTimes(<<1, 10>>,
                                           RatOver(RatMinus(pos, <<3, 10>>), <<1, 2>>)))
                    ELSE RatPlus(<<9, 10>>,
                                 RatTimes(<<1, 10>>,
                                          RatOver(RatMinus(pos, <<4, 5>>), <<1, 5>>)))
        emphasis_boost ==
            RatPlus(<<1, 1>>,
                    RatTimes(RatTimes(p.emphasis, <<1, 5>>), RatMinus(<<1, 1>>, pos)))
    IN RatTimes(RatTimes(p.pitch_multiplier, contour_modifier), emphasis_boost)

SentenceEnders == {".", "!", "?", "iquest", "iexcl"}

\* The for loop and the tail of PhraseAnalyzer::split_sentences, from the
\* 0-based character index i with the current sentence starting at start
RECURSIVE SplitSentencesFrom(_, _, _)
SplitSentencesFrom(chars, start, i) ==
    IF i >= Len(chars)
    THEN IF start < Len(chars) /\ Trim(SubSeq(chars, start + 1, Len(chars))) # <<>>
         THEN <<Trim(SubSeq(chars, start + 1, Len(chars)))>>
         ELSE <<>>
    ELSE LET c == chars[i + 1]
             is_sentence_end ==
                 \/ c # "."
                 \/ i + 1 >= Len(chars)
                 \/ IsWhitespace(chars[i + 2])
                 \/ IsUppercase(chars[i + 2])
         IN IF c \in SentenceEnders /\ is_sentence_end
            THEN LET sentence == SubSeq(chars, start + 1, i + 1)
                 IN (IF Trim(sentence) # <<>> THEN <<Trim(sentence)>> ELSE <<>>)
                    \o SplitSentencesFrom(chars, i + 1, i + 1)
            ELSE SplitSentencesFrom(chars, start, i + 1)

\* PhraseAnalyzer::split_sentences
SplitSentences(t) ==
    LET sentences == SplitSentencesFrom(t, 0, 0)
    IN IF sentences = <<>> /\ Trim(t) # <<>> THEN <<Trim(t)>> ELSE sentences

\* PhraseAnalyzer::analyze
Analyze(t) ==
    LET sentences == SplitSentences(t)
        lens == [i \in DOMAIN sentences |-> ByteLen(sentences[i])]
        total_len == SeqSum(lens)
        kept == SelectSeq([i \in DOMAIN sentences |-> i], LAMBDA i : lens[i] # 0)
    IN IF total_len = 0 THEN <<>>
       ELSE [k \in DOMAIN kept |->
               LET i == kept[k]
                   current_pos == SeqSum(SubSeq(lens, 1, i - 1))
               IN [text |-> sentences[i],
                   prosody |-> FromSentenceType(SentenceTypeDetect(sentences[i])),
                   start_position |-> Rat(current_pos, total_len),
                   end_position |-> Rat(current_pos + lens[i], total_len)]]

\* ------------------------------------------------------------------------
\* formant.rs
\*
\* Audio is a sequence of runs.  The run [tok, sym, lo, hi, pitch, volume,
\* fmt] is the samples lo+1..hi that synthesize_phoneme produces for the
\* tok-th token sym at that pitch and volume; fmt is "f32" before and "i16"
\* after the PCM conversion.  A pause run has sym "_".
\* ------------------------------------------------------------------------

SAMPLE_RATE == 22050

\* SynthesisConfig
SynthesisConfig(pitch_hz, rate, volume) ==
    [pitch_hz |-> pitch_hz, rate |-> rate, volume |-> volume, sample_rate |-> SAMPLE_RATE]

Run(tok, sym, n, pitch, volume) ==
    IF n = 0 THEN <<>>
    ELSE <<[tok |-> tok, sym |-> sym, lo |-> 0, hi |-> n, pitch |-> pitch,
            volume |-> volume, fmt |-> "f32"]>>

\* Vec::len of a sample vector
NumSamples(runs) == SeqSum([i \in DOMAIN runs |-> runs[i].hi - runs[i].lo])

\* The (x as usize) / (x as u32) of a finite rational: truncation, a negative
\* value saturating to 0
Truncate(a) == IF a[1] <= 0 THEN 0 ELSE a[1] \div a[2]

\* synthesize_phoneme: duration_samples =
\*   ((duration_ms as f32 / 1000.0) * sample_rate / rate) as usize
DurationSamples(config, duration_ms) ==
    Truncate(RatOver(RatTimes(Rat(duration_ms, 1000), <<config.sample_rate, 1>>),
                     config.rate))

\* The categories whose samples synthesize_phoneme generates only when the
\* phoneme has formants
NeedsFormants(category) ==
    category \in {"Vowel", "Diphthong", "Nasal", "Lateral", "Rhotic", "Approximant"}

\* FormantSynthesizer::synthesize_phoneme for the tok-th token
SynthesizePhoneme(config, phoneme, duration_ms, tok) ==
    IF NeedsFormants(phoneme.category) /\ ~phoneme.has_formants THEN <<>>
    ELSE Run(tok, phoneme.symbol, DurationSamples(config, duration_ms),
             config.pitch_hz, config.volume)

\* streaming.rs: FormantSynthesizer::synthesize_phoneme_with_pitch_mod
SynthesizePhonemeWithPitchMod(config, phoneme, duration_ms, pitch_mod, tok) ==
    SynthesizePhoneme([config EXCEPT !.pitch_hz = RatTimes(@, pitch_mod)],
                      phoneme, duration_ms, tok)

\* pause_samples = (0.1 * sample_rate as f32 / rate) as usize
PauseSamples(config) ==
    Truncate(RatOver(RatTimes(<<1, 10>>, <<config.sample_rate, 1>>), config.rate))

\* A run of pause_samples zeros
PauseRun(tok, n) == Run(tok, "_", n, <<0, 1>>, <<0, 1>>)

\* duration = (phoneme.duration_ms as f32 / rate) as u32
ScaledDuration(config, phoneme) == Truncate(RatOver(<<phoneme.duration_ms, 1>>, config.rate))

\* The body of the for loop of synthesize_phonemes for token number tok
SynthesizeToken(config, inventory, phoneme_sym, tok) ==
    IF phoneme_sym = "_" THEN PauseRun(tok, PauseSamples(config))
    ELSE IF InventoryGet(inventory, phoneme_sym) # <<>>
    THEN LET phoneme == InventoryGet(inventory, phoneme_sym)[1]
         IN SynthesizePhoneme(config, phoneme, ScaledDuration(config, phoneme), tok)
    ELSE <<>>

\* FormantSynthesizer::synthesize_phonemes
SynthesizePhonemes(config, phoneme_tokens, inventory) ==
    Flatten([i \in DOMAIN phoneme_tokens |->
                SynthesizeToken(config, inventory, phoneme_tokens[i], i - 1)])

\* FormantSynthesizer::to_pcm16: each f32 sample clamped to [-1, 1], scaled
\* by 32767 and cast to i16
ToPcm16(runs) == [i \in DOMAIN runs |-> [runs[i] EXCEPT !.fmt = "i16"]]

\* AudioOutput::new
AudioOutputNew(samples, sample_rate, channels) ==
    [valid |-> TRUE, samples |-> samples, sample_rate |-> sample_rate,
     channels |-> channels]


\* ------------------------------------------------------------------------
\* synthesizer.rs: Synthesizer construction and setters
\* ------------------------------------------------------------------------

\* Synthesizer::set_language
SetLanguage(c, language) == [c EXCEPT !.language = language]

\* Synthesizer::set_rate (u32 argument)
SetRate(c, rate) == [c EXCEPT !.rate = Clamp(rate, 50, 500)]

\* Synthesizer::set_pitch (i8 argument)
SetPitch(c, pitch) == [c EXCEPT !.pitch = Clamp(pitch, -100, 100)]

\* Synthesizer::set_volume (u8 argument)
SetVolume(c, volume) == [c EXCEPT !.volume = Min(volume, 200)]

\* Arguments the setters and builders are called with: u32 rates, i8
\* pitches, u8 volumes, on both sides of every bound and at the type limits.
RateArgs == {0, 10, 49, 50, 175, 500, 501, 1000, 2147483647}
PitchArgs == {-128, -101, -100, 0, 20, 100, 101, 127}
VolumeArgs == {0, 100, 150, 200, 201, 255}

NoBuilder == [valid |-> FALSE, config |-> VoiceConfigNew("English")]
NoSynth == [valid |-> FALSE, config |-> VoiceConfigNew("English")]
NoCall == [op |-> "none", arg |-> 0, before |-> VoiceConfigNew("English")]

\* The variables of the other state machines, at rest.
NoText == <<>>
NoStreamer == [valid |-> FALSE]
NoStream == [valid |-> FALSE]
NoAudio == [valid |-> FALSE]
NoSsml == [phase |-> "idle"]
NoEngines == <<>>
NoCalls == <<>>
NoG2P == [valid |-> FALSE]

\* VoiceConfig::new(language), the head of a builder chain
InitVoice ==
    /\ \E l \in Languages :
          /\ voice_builder = [valid |-> TRUE, config |-> VoiceConfigNew(l)]
          /\ last_call = [op |-> "new", arg |-> 0, before |-> VoiceConfigNew(l)]
    /\ synth = NoSynth
    /\ streamer = NoStreamer
    /\ text = NoText
    /\ stream = NoStream
    /\ chunks = <<>>
    /\ audio = NoAudio
    /\ ssml = NoSsml
    /\ engines = NoEngines
    /\ call_log = NoCalls
    /\ g2p = NoG2P

UnchangedSpeech ==
    UNCHANGED <<streamer, text, stream, chunks, audio, ssml, engines, call_log, g2p>>

BuilderWithRate(r) ==
    /\ voice_builder.valid
    /\ voice_builder' = [voice_builder EXCEPT !.config = WithRate(@, r)]
    /\ last_call' = [op |-> "with_rate", arg |-> r, before |-> voice_builder.config]
    /\ UNCHANGED synth
    /\ UnchangedSpeech

BuilderWithPitch(p) ==
    /\ voice_builder.valid
    /\ voice_builder' = [voice_builder EXCEPT !.config = WithPitch(@, p)]
    /\ last_call' = [op |-> "with_pitch", arg |-> p, before |-> voice_builder.config]
    /\ UNCHANGED synth
    /\ UnchangedSpeech

BuilderWithVolume(v) ==
    /\ voice_builder.valid
    /\ voice_builder' = [voice_builder EXCEPT !.config = WithVolume(@, v)]
    /\ last_call' = [op |-> "with_volume", arg |-> v, before |-> voice_builder.config]
    /\ UNCHANGED synth
    /\ UnchangedSpeech

\* Synthesizer::with_config(config): the builder's value moves into the engine
SynthesizerWithConfig ==
    /\ voice_builder.valid
    /\ synth' = [valid |-> TRUE, config |-> voice_builder.config]
    /\ voice_builder' = NoBuilder
    /\ last_call' = [op |-> "with_config", arg |-> 0, before |-> voice_builder.config]
    /\ UnchangedSpeech

CallSetRate(r) ==
    /\ synth.valid
    /\ synth' = [synth EXCEPT !.config = SetRate(@, r)]
    /\ last_call' = [op |-> "set_rate", arg |-> r, before |-> synth.config]
    /\ UNCHANGED voice_builder
    /\ UnchangedSpeech

CallSetPitch(p) ==
    /\ synth.valid
    /\ synth' = [synth EXCEPT !.config = SetPitch(@, p)]
    /\ last_call' = [op |-> "set_pitch", arg |-> p, before |-> synth.config]
    /\ UNCHANGED voice_builder
    /\ UnchangedSpeech

CallSetVolume(v) ==
    /\ synth.valid
    /\ synth' = [synth EXCEPT !.config = SetVolume(@, v)]
    /\ last_call' = [op |-> "set_volume", arg |-> v, before |-> synth.config]
    /\ UNCHANGED voice_builder
    /\ UnchangedSpeech

CallSetLanguage(l) ==
    /\ synth.valid
    /\ synth' = [synth EXCEPT !.config = SetLanguage(@, l)]
    /\ last_call' = [op |-> "set_language", arg |-> 0, before |-> synth.config]
    /\ UNCHANGED voice_builder
    /\ UnchangedSpeech

NextVoice ==
    \/ \E r \in RateArgs : BuilderWithRate(r)
    \/ \E p \in PitchArgs : BuilderWithPitch(p)
    \/ \E v \in VolumeArgs : BuilderWithVolume(v)
    \/ SynthesizerWithConfig
    \/ \E r \in RateArgs : CallSetRate(r)
    \/ \E p \in PitchArgs : CallSetPitch(p)
    \/ \E v \in VolumeArgs : CallSetVolume(v)
    \/ \E l \in Languages : CallSetLanguage(l)

SpecVoice == InitVoice /\ [][NextVoice]_vars

\* The configuration the last operation produced.
CurrentVoiceConfig == IF synth.valid THEN synth.config ELSE voice_builder.config

NearestRate(r) == IF r < 50 THEN 50 ELSE IF r > 500 THEN 500 ELSE r
NearestPitch(p) == IF p < -100 THEN -100 ELSE IF p > 100 THEN 100 ELSE p
NearestVolume(v) == IF v > 200 THEN 200 ELSE v

\* C10: after any chain of with_rate / with_pitch / with_volume and any
\* sequence of set_rate / set_pitch / set_volume / set_language calls, the
\* configuration has rate in [50,500], pitch in [-100,100] and volume in
\* [0,200]; the argument is stored unchanged when in range and as the nearest
\* bound otherwise (1000 -> 500, 10 -> 50); every other field keeps its value.
C10_VoiceConfigClamped ==
    LET c == CurrentVoiceConfig
        b == last_call.before
        op == last_call.op
        a == last_call.arg
    IN /\ c.rate >= 50 /\ c.rate <= 500
       /\ c.pitch >= -100 /\ c.pitch <= 100
       /\ c.volume >= 0 /\ c.volume <= 200
       /\ op \in {"with_rate", "set_rate"} =>
             /\ c = [b EXCEPT !.rate = NearestRate(a)]
             /\ (a = 1000 => c.rate = 500)
             /\ (a = 10 => c.rate = 50)
       /\ op \in {"with_pitch", "set_pitch"} => c = [b EXCEPT !.pitch = NearestPitch(a)]
       /\ op \in {"with_volume", "set_volume"} => c = [b EXCEPT !.volume = NearestVolume(a)]
       /\ op = "set_language" =>
             /\ c.rate = b.rate /\ c.pitch = b.pitch
             /\ c.volume = b.volume /\ c.variant = b.variant
       /\ op = "with_config" => c = b

\* C10 witness: set_rate(1000) on an engine whose pitch and volume were set
\* before stored 500 and kept the other fields.
C10_Witness ==
    /\ synth.valid
    /\ last_call.op = "set_rate" /\ last_call.arg = 1000
    /\ synth.config.rate = 500
    /\ synth.config.pitch = 20 /\ synth.config.volume = 150

\* ------------------------------------------------------------------------
\* synthesizer.rs: one-shot synthesis
\* ------------------------------------------------------------------------

\* Synthesizer::create_formant_synthesizer
CreateFormantSynthesizer(c) ==
    SynthesisConfig(EffectivePitchHz(c), RateMultiplier(c), RatMin(VolumeLevel(c), <<1, 1>>))

\* Synthesizer::synthesize
Synthesize(c, t) ==
    LET phonemes == Convert(GetG2P(c.language), t)
    IN IF phonemes = <<>> THEN AudioOutputNew(<<>>, SAMPLE_RATE, 1)
       ELSE AudioOutputNew(
                ToPcm16(SynthesizePhonemes(CreateFormantSynthesizer(c), phonemes,
                                           GetInventory(c.language))),
                SAMPLE_RATE, 1)

\* ------------------------------------------------------------------------
\* streaming.rs
\* ------------------------------------------------------------------------

DEFAULT_CHUNK_SIZE == 1024

\* StreamingConfig::default
StreamingConfigDefault ==
    [chunk_size |-> DEFAULT_CHUNK_SIZE, voice |-> VoiceConfigNew("English"),
     enable_prosody |-> TRUE]

\* StreamingConfig::with_chunk_size / with_voice / with_prosody
WithChunkSize(sc, size) == [sc EXCEPT !.chunk_size = Max(size, 256)]
WithVoice(sc, voice) == [sc EXCEPT !.voice = voice]
WithProsody(sc, enable) == [sc EXCEPT !.enable_prosody = enable]

\* StreamingSynthesizer::with_config
StreamingSynthesizerWithConfig(config) == [valid |-> TRUE, config |-> config]

\* AudioChunk::new
AudioChunkNew(samples, is_final, progress) ==
    [samples |-> samples, sample_rate |-> SAMPLE_RATE, is_final |-> is_final,
     progress |-> progress]

\* AudioStream::new.  The cloned inventory is held by its language; consumed
\* (the phoneme tokens taken so far) and exhausted (next has returned None)
\* are history fields.
AudioStreamNew(phonemes, inventory, synth_config, chunk_size, prosody) ==
    [valid |-> TRUE, phoneme_tokens |-> phonemes, current_index |-> 0,
     inventory |-> inventory.language, config |-> synth_config,
     chunk_size |-> chunk_size, prosody |-> prosody, buffer |-> <<>>,
     is_complete |-> FALSE, consumed |-> 0, exhausted |-> FALSE]

StreamInventory(s) == IF s.inventory = "en" THEN InventoryEnglish ELSE InventorySpanish

\* StreamingSynthesizer::synthesize_stream
SynthesizeStream(sc, t) ==
    LET phonemes == Convert(GetG2P(sc.voice.language), t)
        inventory == GetInventory(sc.voice.language)
        segments == Analyze(t)
        prosody == IF sc.enable_prosody
                   THEN IF segments = <<>> THEN ProsodyConfigDefault
                        ELSE segments[1].prosody
                   ELSE ProsodyConfigDefault
        synth_config ==
            SynthesisConfig(
                RatTimes(EffectivePitchHz(sc.voice), prosody.pitch_multiplier),
                RatTimes(RateMultiplier(sc.voice), prosody.rate_multiplier),
                RatTimes(RatMin(VolumeLevel(sc.voice), <<1, 1>>), prosody.volume_multiplier))
    IN AudioStreamNew(phonemes, inventory, synth_config, sc.chunk_size, prosody)

\* A faulty progress, for comparison: it counts the phoneme about to be taken
ProgressAhead(s) ==
    IF s.phoneme_tokens = <<>> THEN <<1, 1>>
    ELSE Rat(s.current_index + 1, Len(s.phoneme_tokens))

\* AudioStream::progress
Progress(s) ==
    IF s.phoneme_tokens = <<>> THEN <<1, 1>>
    ELSE Rat(s.current_index, Len(s.phoneme_tokens))

\* AudioStream::synthesize_next_phoneme
SynthesizeNextPhoneme(s) ==
    IF s.current_index >= Len(s.phoneme_tokens) THEN [s EXCEPT !.is_complete = TRUE]
    ELSE LET phoneme_sym == s.phoneme_tokens[s.current_index + 1]
             found == InventoryGet(StreamInventory(s), phoneme_sym)
             produced ==
                 IF phoneme_sym = "_"
                 THEN PauseRun(s.current_index,
                               Truncate(RatOver(RatTimes(<<1, 10>>, <<SAMPLE_RATE, 1>>),
                                                s.config.rate)))
                 ELSE IF found # <<>>
                 THEN LET position == Progress(s)
                          pitch_mod == PitchAtPosition(s.prosody, position)
                          duration == ScaledDuration(s.config, found[1])
                      IN SynthesizePhonemeWithPitchMod(s.config, found[1], duration,
                                                       pitch_mod, s.current_index)
                 ELSE <<>>
         IN [s EXCEPT !.buffer = @ \o produced,
                      !.current_index = @ + 1,
                      !.consumed = @ + 1]

\* A loop that synthesizes every phoneme at once, whatever the buffer holds
RECURSIVE FillBufferAll(_)
FillBufferAll(s) ==
    IF ~s.is_complete THEN FillBufferAll(SynthesizeNextPhoneme(s)) ELSE s

\* The while loop of AudioStream::next
RECURSIVE FillBuffer(_)
FillBuffer(s) ==
    IF NumSamples(s.buffer) < s.chunk_size /\ ~s.is_complete
    THEN FillBuffer(SynthesizeNextPhoneme(s))
    ELSE s

\* Vec::drain(..n): the n samples taken, and the samples left
RECURSIVE TakeSamples(_, _)
TakeSamples(runs, n) ==
    IF n = 0 \/ runs = <<>> THEN <<>>
    ELSE LET r == Head(runs)
             len == r.hi - r.lo
         IN IF len <= n THEN <<r>> \o TakeSamples(Tail(runs), n - len)
            ELSE <<[r EXCEPT !.hi = r.lo + n]>>

\* A faulty drain, for comparison: it discards the whole of a phoneme that
\* the chunk boundary cuts.
RECURSIVE DropWholeRuns(_, _)
DropWholeRuns(runs, n) ==
    IF n = 0 \/ runs = <<>> THEN runs
    ELSE LET r == Head(runs)
             len == r.hi - r.lo
         IN IF len <= n THEN DropWholeRuns(Tail(runs), n - len)
            ELSE Tail(runs)

RECURSIVE DropSamples(_, _)
DropSamples(runs, n) ==
    IF n = 0 \/ runs = <<>> THEN runs
    ELSE LET r == Head(runs)
             len == r.hi - r.lo
         IN IF len <= n THEN DropSamples(Tail(runs), n - len)
            ELSE <<[r EXCEPT !.lo = r.lo + n]>> \o Tail(runs)

\* An extract_chunk that marks every chunk final
ExtractChunkAlwaysFinal(s, is_final) ==
    LET samples_to_take == Min(s.chunk_size, NumSamples(s.buffer))
        after == [s EXCEPT !.buffer = DropSamples(@, samples_to_take)]
    IN [stream |-> after,
        chunk |-> AudioChunkNew(ToPcm16(TakeSamples(s.buffer, samples_to_take)), TRUE,
                                Progress(after))]

\* AudioStream::extract_chunk: the stream afterwards and the chunk
ExtractChunk(s, is_final) ==
    LET samples_to_take == Min(s.chunk_size, NumSamples(s.buffer))
        float_samples == TakeSamples(s.buffer, samples_to_take)
        after == [s EXCEPT !.buffer = DropSamples(@, samples_to_take)]
        pcm_samples == ToPcm16(float_samples)
    IN [stream |-> after,
        chunk |-> AudioChunkNew(pcm_samples, is_final /\ after.buffer = <<>>,
                                Progress(after))]

\* Adjacent runs that continue one another, joined: the sample array that a
\* sequence of runs stands for
RECURSIVE Coalesce(_)
Coalesce(runs) ==
    IF Len(runs) < 2 THEN runs
    ELSE LET a == runs[1]
             b == runs[2]
         IN IF a.hi = b.lo /\ [a EXCEPT !.lo = 0, !.hi = 0] = [b EXCEPT !.lo = 0, !.hi = 0]
            THEN Coalesce(<<[a EXCEPT !.hi = b.hi]>> \o SubSeq(runs, 3, Len(runs)))
            ELSE <<a>> \o Coalesce(Tail(runs))

\* ------------------------------------------------------------------------
\* The streaming state machine: a StreamingSynthesizer and a Synthesizer of
\* the same voice, one text given to both
\* ------------------------------------------------------------------------

MaxTextLen == 2

TextAlphabet == {"a", "x", "g", "h", " ", "1", "?"}

TextCorpus ==
    { <<"h","e","l","l","o">>,
      <<"t","h","e"," ","c","a","t">>,
      <<"a"," ","a">>,
      <<"b","o","x">>,
      <<"H","i","!">>,
      <<"w","h","a","t","?">>,
      <<"g","h"," ","1","2">>,
      <<"h","o","l","a">>,
      <<"n","i","ntilde","o">> }

TextInputs == SeqsUpTo(TextAlphabet, MaxTextLen) \cup TextCorpus

VoiceRates == {175, 350}
VoiceVolumes == {100, 150}
ChunkSizeArgs == {100, 441, 1024, 1764}

StreamVoices ==
    {WithVolume(WithRate(VoiceConfigNew(l), r), v) :
        l \in Languages, r \in VoiceRates, v \in VoiceVolumes}

StreamingConfigs ==
    {WithChunkSize(WithProsody(WithVoice(StreamingConfigDefault, voice), p), n) :
        voice \in StreamVoices, p \in BOOLEAN, n \in ChunkSizeArgs}

\* StreamingSynthesizer::with_config(sc) and Synthesizer::with_config(sc.voice)
InitStream ==
    /\ \E sc \in StreamingConfigs :
          /\ streamer = StreamingSynthesizerWithConfig(sc)
          /\ synth = [valid |-> TRUE, config |-> sc.voice]
    /\ voice_builder = NoBuilder
    /\ last_call = NoCall
    /\ text = NoText
    /\ stream = NoStream
    /\ chunks = <<>>
    /\ audio = NoAudio
    /\ ssml = NoSsml
    /\ engines = NoEngines
    /\ call_log = NoCalls
    /\ g2p = NoG2P

\* stream = streamer.synthesize_stream(t)
CallSynthesizeStream(t) ==
    /\ streamer.valid
    /\ ~stream.valid
    /\ text' = t
    /\ stream' = SynthesizeStream(streamer.config, t)
    /\ chunks' = <<>>
    /\ UNCHANGED <<voice_builder, synth, last_call, streamer, audio, ssml,
                   engines, call_log, g2p>>

\* stream.next(): a chunk is appended to chunks, or None is returned
CallNext ==
    /\ stream.valid
    /\ ~stream.exhausted
    /\ LET filled == FillBuffer(stream)
       IN IF filled.buffer = <<>>
          THEN /\ stream' = [filled EXCEPT !.exhausted = TRUE]
               /\ UNCHANGED chunks
          ELSE LET r == ExtractChunk(filled, filled.is_complete)
               IN /\ stream' = r.stream
                  /\ chunks' = Append(chunks, [chunk |-> r.chunk,
                                               consumed |-> filled.consumed])
    /\ UNCHANGED <<voice_builder, synth, last_call, streamer, text, audio, ssml,
                   engines, call_log, g2p>>

\* audio = synth.synthesize(text), for the text given to the stream
CallSynthesize ==
    /\ synth.valid
    /\ stream.valid
    /\ ~audio.valid
    /\ audio' = Synthesize(synth.config, text)
    /\ UNCHANGED <<voice_builder, synth, last_call, streamer, text, stream, chunks, ssml,
                   engines, call_log, g2p>>

NextStream ==
    \/ \E t \in TextInputs : CallSynthesizeStream(t)
    \/ CallNext
    \/ CallSynthesize

SpecStream == InitStream /\ [][NextStream]_vars

\* The sample array of all chunks yielded so far, in order
ChunkSamples == Flatten([i \in DOMAIN chunks |-> chunks[i].chunk.samples])

\* C1: when a stream that yielded at least one chunk has returned None, the
\* last chunk it yielded has is_final = true (chunk_size >= 256 throughout).
C1_LastChunkIsFinal ==
    (stream.valid /\ stream.exhausted /\ chunks # <<>> /\ stream.chunk_size >= 256)
        => chunks[Len(chunks)].chunk.is_final

\* C2: with enable_prosody = false and the same voice, once the stream has
\* returned None the concatenation of the chunks' samples is the sample array
\* of Synthesizer::synthesize on the same text.
C2_StreamEqualsOneShot ==
    (stream.valid /\ stream.exhausted /\ audio.valid /\ ~streamer.config.enable_prosody)
        => /\ Coalesce(ChunkSamples) = Coalesce(audio.samples)
           /\ NumSamples(ChunkSamples) = NumSamples(audio.samples)

\* C2 witness: a finished stream without prosody whose three or more chunks
\* cut through phonemes and a pause, next to the one-shot audio of the text.
C2_Witness ==
    /\ stream.valid /\ stream.exhausted /\ audio.valid
    /\ ~streamer.config.enable_prosody
    /\ Len(chunks) >= 3
    /\ \E i \in DOMAIN stream.phoneme_tokens : stream.phoneme_tokens[i] = "_"
    /\ \E i \in DOMAIN chunks : Len(chunks[i].chunk.samples) >= 2
    /\ \E i \in DOMAIN chunks :
          \E k \in DOMAIN chunks[i].chunk.samples : chunks[i].chunk.samples[k].lo > 0
    /\ NumSamples(audio.samples) > 0

\* Some token of the English G2P output of t is in the English inventory
\* (the inventory holds the pause symbol too).
SpeakableEnglish(t) ==
    \E i \in DOMAIN Convert(G2PEnglish, t) :
        Convert(G2PEnglish, t)[i] \in DOMAIN InventoryEnglish.phonemes

DefaultStreaming == streamer.valid /\ streamer.config = StreamingConfigDefault

\* C3 as stated: for every non-empty English text under the default
\* configuration the stream yields at least one chunk.
C3_NonEmptyTextYieldsChunk ==
    (DefaultStreaming /\ stream.valid /\ stream.exhausted /\ text # <<>>)
        => chunks # <<>>

\* C3 amended: for a non-empty English text under the default configuration
\* the stream yields a chunk exactly when a token of the text's G2P output is
\* in the inventory.
C3_ChunkIffSpeakable ==
    (DefaultStreaming /\ stream.valid /\ text # <<>>)
        => /\ chunks # <<>> => SpeakableEnglish(text)
           /\ (stream.exhausted /\ chunks = <<>>) => ~SpeakableEnglish(text)
           /\ (chunks = <<>> /\ ~stream.exhausted) => stream.current_index = 0

\* C3 witness: under the default configuration a non-empty text of a digit
\* and a letter whose only phoneme is outside the inventory ended with no
\* chunk.
C3_Witness ==
    /\ DefaultStreaming /\ stream.valid /\ stream.exhausted
    /\ text = <<"1", "x">>
    /\ chunks = <<>>

\* C4: the progress of every yielded chunk is (tokens consumed when it was
\* emitted) / (total tokens), lies in [0, 1], and does not decrease from one
\* chunk to the next.
C4_ProgressIsConsumedOverTotal ==
    \A i \in DOMAIN chunks :
        LET p == chunks[i].chunk.progress
        IN /\ p = Rat(chunks[i].consumed, Len(stream.phoneme_tokens))
           /\ RatLe(<<0, 1>>, p) /\ RatLe(p, <<1, 1>>)
           /\ i > 1 => RatLe(chunks[i - 1].chunk.progress, p)

\* C4 witness: a finished session of three or more chunks whose progress
\* starts below 1, rises, and ends at 1.
C4_Witness ==
    /\ stream.valid /\ stream.exhausted
    /\ Len(chunks) >= 3
    /\ RatLt(chunks[1].chunk.progress, <<1, 1>>)
    /\ \E i \in DOMAIN chunks :
          i > 1 /\ RatLt(chunks[i - 1].chunk.progress, chunks[i].chunk.progress)
    /\ \E i \in DOMAIN chunks :
          i > 1 /\ chunks[i - 1].chunk.progress = chunks[i].chunk.progress
    /\ chunks[Len(chunks)].chunk.progress = <<1, 1>>

\* C5: every token of the phoneme string of G2PConverter::convert other than
\* "_" is a symbol of the language's inventory.
C5_TokensInInventory ==
    stream.valid =>
        \A i \in DOMAIN stream.phoneme_tokens :
            \/ stream.phoneme_tokens[i] = "_"
            \/ stream.phoneme_tokens[i] \in DOMAIN StreamInventory(stream).phonemes

\* ------------------------------------------------------------------------
\* synthesizer.rs: text_to_phonemes and the espeak-ng compatible functions
\* ------------------------------------------------------------------------

\* Result values: Ok(value) and Err(SynthesizerError::UnsupportedLanguage(code))
Ok(value) == [ok |-> TRUE, error |-> "", value |-> value]
UnsupportedLanguage(code) == [ok |-> FALSE, error |-> "UnsupportedLanguage", value |-> code]

\* Synthesizer::text_to_phonemes: the phonemes field of the PhonemeResult
TextToPhonemes(c, t, format) ==
    IF format = "Ascii" THEN Ok(Convert(GetG2P(c.language), t))
    ELSE TextToIpa(t, LanguageCode(c.language))

\* espeak_initialize
EspeakInitialize == Ok(SAMPLE_RATE)

\* A faulty from_code, for comparison: the code matched as written
FromCodeAsWritten(code) ==
    IF code \in EnglishCodes THEN <<"English">>
    ELSE IF code \in SpanishCodes THEN <<"Spanish">>
    ELSE <<>>

\* Language::from_code as the espeak functions call it
EspeakLanguage(code) == FromCode(code)

\* espeak_set_voice_by_name
EspeakSetVoiceByName(name) ==
    IF EspeakLanguage(name) # <<>> THEN Ok(<<>>) ELSE UnsupportedLanguage(name)

\* The code the last successful espeak_set_voice_by_name of the log was given
VoiceSetLast ==
    LET set == {i \in DOMAIN call_log :
                   call_log[i].op = "espeak_set_voice_by_name" /\ call_log[i].result.ok}
    IN IF set = {} THEN <<>>
       ELSE <<call_log[CHOOSE i \in set : \A k \in set : k <= i].code>>

\* An espeak_synth that speaks with the voice set last, as a process-wide
\* current voice would have it
EspeakSynthCurrentVoice(t, language) ==
    IF FromCode(language) = <<>> THEN UnsupportedLanguage(language)
    ELSE IF VoiceSetLast = <<>>
    THEN Ok(Synthesize(VoiceConfigNew(FromCode(language)[1]), t).samples)
    ELSE Ok(Synthesize(VoiceConfigNew(FromCode(VoiceSetLast[1])[1]), t).samples)

\* espeak_synth
EspeakSynth(t, language) ==
    LET lang == EspeakLanguage(language)
    IN IF lang = <<>> THEN UnsupportedLanguage(language)
       ELSE Ok(Synthesize(VoiceConfigNew(lang[1]), t).samples)

\* espeak_text_to_phonemes
EspeakTextToPhonemes(t, language, ipa) ==
    LET lang == EspeakLanguage(language)
        format == IF ipa THEN "Ipa" ELSE "Ascii"
    IN IF lang = <<>> THEN UnsupportedLanguage(language)
       ELSE TextToPhonemes(VoiceConfigNew(lang[1]), t, format)

ToUpperChar(c) ==
    IF c \in Range(LowerAscii)
    THEN UpperAscii[CHOOSE i \in DOMAIN LowerAscii : LowerAscii[i] = c]
    ELSE c

\* The ten language codes of the documentation
TenCodes ==
    { <<"e","n">>, <<"e","n","g">>, <<"e","n","g","l","i","s","h">>,
      <<"e","n","-","u","s">>, <<"e","n","-","g","b">>,
      <<"e","s">>, <<"s","p","a">>, <<"s","p","a","n","i","s","h">>,
      <<"e","s","-","e","s">>, <<"e","s","-","m","x">> }

\* The codes in lower case, in upper case and capitalised
CodeSpellings ==
    TenCodes
    \cup {[i \in DOMAIN c |-> ToUpperChar(c[i])] : c \in TenCodes}
    \cup {[i \in DOMAIN c |-> IF i = 1 THEN ToUpperChar(c[i]) ELSE c[i]] : c \in TenCodes}

\* Codes that name no language
OtherCodes ==
    { <<>>, <<"e">>, <<"f","r">>, <<"e","n","g","l">>, <<"e","n","_","u","s">>,
      <<"e","n","-","a","u">>, <<"e","s","-","a","r">>, <<"e","n"," ">>,
      <<"s","p","a","n","i","s","h","1">>, <<"x","x">> }

CodeInputs == CodeSpellings \cup OtherCodes

EspeakTexts ==
    { <<>>, <<"b","o","x">>, <<"h","o","l","a"," ","n","i","ntilde","o">> }

NoEspeakCall ==
    [op |-> "none", code |-> <<>>, text |-> <<>>, ipa |-> FALSE, result |-> Ok(<<>>)]

\* The program before any call: the functions keep no state of their own;
\* last_call records the last call and its result.
InitEspeak ==
    /\ last_call = NoEspeakCall
    /\ voice_builder = NoBuilder
    /\ synth = NoSynth
    /\ streamer = NoStreamer
    /\ text = NoText
    /\ stream = NoStream
    /\ chunks = <<>>
    /\ audio = NoAudio
    /\ ssml = NoSsml
    /\ engines = NoEngines
    /\ call_log = NoCalls
    /\ g2p = NoG2P

UnchangedButCall ==
    UNCHANGED <<voice_builder, synth, streamer, text, stream, chunks, audio, ssml,
                engines, call_log, g2p>>

CallEspeakInitialize ==
    /\ last_call' = [NoEspeakCall EXCEPT !.op = "espeak_initialize",
                                         !.result = EspeakInitialize]
    /\ UnchangedButCall

CallEspeakSetVoiceByName(code) ==
    /\ last_call' = [op |-> "espeak_set_voice_by_name", code |-> code, text |-> <<>>,
                     ipa |-> FALSE, result |-> EspeakSetVoiceByName(code)]
    /\ UnchangedButCall

CallEspeakSynth(t, code) ==
    /\ last_call' = [op |-> "espeak_synth", code |-> code, text |-> t,
                     ipa |-> FALSE, result |-> EspeakSynth(t, code)]
    /\ UnchangedButCall

CallEspeakTextToPhonemes(t, code, ipa) ==
    /\ last_call' = [op |-> "espeak_text_to_phonemes", code |-> code, text |-> t,
                     ipa |-> ipa, result |-> EspeakTextToPhonemes(t, code, ipa)]
    /\ UnchangedButCall

CallTextToIpa(t, code) ==
    /\ last_call' = [op |-> "text_to_ipa", code |-> code, text |-> t,
                     ipa |-> TRUE, result |-> TextToIpa(t, code)]
    /\ UnchangedButCall

\* espeak_terminate: a no-op
CallEspeakTerminate ==
    /\ last_call' = [NoEspeakCall EXCEPT !.op = "espeak_terminate"]
    /\ UnchangedButCall

NextEspeak ==
    \/ CallEspeakInitialize
    \/ \E code \in CodeInputs : CallEspeakSetVoiceByName(code)
    \/ \E t \in EspeakTexts, code \in CodeInputs : CallEspeakSynth(t, code)
    \/ \E t \in EspeakTexts, code \in CodeInputs, ipa \in BOOLEAN :
          CallEspeakTextToPhonemes(t, code, ipa)
    \/ \E t \in EspeakTexts, code \in CodeInputs : CallTextToIpa(t, code)
    \/ CallEspeakTerminate

SpecEspeak == InitEspeak /\ [][NextEspeak]_vars

EspeakOps == {"espeak_set_voice_by_name", "espeak_synth", "espeak_text_to_phonemes"}

\* C8: espeak_set_voice_by_name, espeak_synth and espeak_text_to_phonemes
\* return UnsupportedLanguage for every code for which from_code is None, and
\* succeed, for every text, for each of the ten codes in any letter case.
C8_EspeakCodes ==
    last_call.op \in EspeakOps =>
        /\ FromCode(last_call.code) = <<>> =>
              last_call.result = UnsupportedLanguage(last_call.code)
        /\ ToLowercase(last_call.code) \in TenCodes => last_call.result.ok
        /\ last_call.result.ok => ToLowercase(last_call.code) \in TenCodes

\* C8 witness: espeak_text_to_phonemes in IPA format succeeded for "EN-GB"
\* on a text with phonemes.
C8_Witness ==
    /\ last_call.op = "espeak_text_to_phonemes"
    /\ last_call.code = <<"E","N","-","G","B">>
    /\ last_call.ipa
    /\ last_call.result.ok
    /\ last_call.result.value # <<>>

\* C9: text_to_ipa succeeds for each of the ten codes that from_code accepts
\* and fails with UnsupportedLanguage for every other code.
C9_TextToIpaCodes ==
    last_call.op = "text_to_ipa" =>
        /\ last_call.code \in TenCodes => last_call.result.ok
        /\ FromCode(last_call.code) = <<>> =>
              last_call.result = UnsupportedLanguage(last_call.code)

\* ------------------------------------------------------------------------
\* ssml.rs: element types
\* ------------------------------------------------------------------------

\* SsmlElement: a record with the variant as its kind and the variant's
\* fields.  SsmlElement::Text(text):
SsmlText(t) == [kind |-> "Text", text |-> t]

\* BreakSpec::default
BreakSpecDefault == [time_ms |-> 0, strength |-> "Medium"]

\* BreakStrength::to_ms
BreakStrengthToMs(strength) ==
    CASE strength = "None" -> 0
      [] strength = "XWeak" -> 100
      [] strength = "Weak" -> 200
      [] strength = "Medium" -> 400
      [] strength = "Strong" -> 600
      [] strength = "XStrong" -> 1000

\* BreakStrength::parse
BreakStrengthParse(s) ==
    LET l == ToLowercase(s)
    IN IF l = <<"n", "o", "n", "e">> THEN "None"
       ELSE IF l = <<"x", "-", "w", "e", "a", "k">> THEN "XWeak"
       ELSE IF l = <<"w", "e", "a", "k">> THEN "Weak"
       ELSE IF l = <<"m", "e", "d", "i", "u", "m">> THEN "Medium"
       ELSE IF l = <<"s", "t", "r", "o", "n", "g">> THEN "Strong"
       ELSE IF l = <<"x", "-", "s", "t", "r", "o", "n", "g">> THEN "XStrong"
       ELSE "Medium"

\* EmphasisLevel::parse
EmphasisLevelParse(s) ==
    LET l == ToLowercase(s)
    IN IF l = <<"r", "e", "d", "u", "c", "e", "d">> THEN "Reduced"
       ELSE IF l = <<"n", "o", "n", "e">> THEN "None"
       ELSE IF l = <<"m", "o", "d", "e", "r", "a", "t", "e">> THEN "Moderate"
       ELSE IF l = <<"s", "t", "r", "o", "n", "g">> THEN "Strong"
       ELSE "Moderate"

\* EmphasisLevel::to_emphasis_value
ToEmphasisValue(level) ==
    CASE level = "Reduced" -> <<0, 1>>
      [] level = "None" -> <<0, 1>>
      [] level = "Moderate" -> <<1, 2>>
      [] level = "Strong" -> <<1, 1>>

\* EmphasisLevel::to_volume_multiplier
ToVolumeMultiplier(level) ==
    CASE level = "Reduced" -> <<4, 5>>
      [] level = "None" -> <<1, 1>>
      [] level = "Moderate" -> <<11, 10>>
      [] level = "Strong" -> <<13, 10>>

\* ------------------------------------------------------------------------
\* ssml.rs: attribute values
\*
\* The numbers of attribute values are decimal literals (sign, digits, one
\* point) of at most nine digits; the f32 and u32 parsers are modelled on
\* those.  Exponents, "inf" and "nan" are not among the inputs.
\* ------------------------------------------------------------------------

DigitSeq == <<"0", "1", "2", "3", "4", "5", "6", "7", "8", "9">>

DigitValue(c) == (CHOOSE i \in DOMAIN DigitSeq : DigitSeq[i] = c) - 1

AllDigits(s) == \A i \in DOMAIN s : s[i] \in Digits

RECURSIVE ParseDigits(_)
ParseDigits(s) ==
    IF s = <<>> THEN 0
    ELSE ParseDigits(SubSeq(s, 1, Len(s) - 1)) * 10 + DigitValue(s[Len(s)])

\* u32's Display, as format!("{}", n) writes it
RECURSIVE ToDecimal(_)
ToDecimal(n) ==
    IF n < 10 THEN <<DigitSeq[n + 1]>>
    ELSE ToDecimal(n \div 10) \o <<DigitSeq[(n % 10) + 1]>>

\* str::parse::<u32>: <<n>> for Ok(n), <<>> for Err
ParseU32(s) ==
    LET d == IF s # <<>> /\ s[1] = "+" THEN Tail(s) ELSE s
    IN IF d # <<>> /\ AllDigits(d) /\ Len(d) <= 9 THEN <<ParseDigits(d)>> ELSE <<>>

\* str::parse::<f32>: <<x>> for Ok(x), <<>> for Err
ParseF32(s) ==
    LET signed == s # <<>> /\ s[1] \in {"+", "-"}
        body == IF signed THEN Tail(s) ELSE s
        dots == {i \in DOMAIN body : body[i] = "."}
        dot == IF dots = {} THEN Len(body) + 1 ELSE CHOOSE i \in dots : TRUE
        int_part == SubSeq(body, 1, dot - 1)
        frac_part == SubSeq(body, dot + 1, Len(body))
        scale == 10 ^ Len(frac_part)
        magnitude == ParseDigits(int_part) * scale + ParseDigits(frac_part)
    IN IF /\ Cardinality(dots) <= 1
          /\ int_part \o frac_part # <<>>
          /\ AllDigits(int_part) /\ AllDigits(frac_part)
          /\ Len(int_part) + Len(frac_part) <= 9
       THEN <<Rat(IF signed /\ s[1] = "-" THEN -magnitude ELSE magnitude, scale)>>
       ELSE <<>>

\* Result::unwrap_or
UnwrapOr(r, default) == IF r = <<>> THEN default ELSE r[1]

\* str::strip_suffix on a string that ends with the suffix
StripSuffix(s, suffix) == SubSeq(s, 1, Len(s) - Len(suffix))

\* str::contains
Contains(s, pat) ==
    \E i \in 0..(Len(s) - Len(pat)) : SubSeq(s, i + 1, i + Len(pat)) = pat

\* parse_duration: milliseconds
ParseDuration(s) ==
    LET t == ToLowercase(Trim(s))
    IN IF EndsWith(t, <<"m", "s">>) THEN UnwrapOr(ParseU32(Trim(StripSuffix(t, <<"m", "s">>))), 0)
       ELSE IF EndsWith(t, <<"s">>)
       THEN Truncate(RatTimes(UnwrapOr(ParseF32(Trim(StripSuffix(t, <<"s">>))), <<0, 1>>),
                              <<1000, 1>>))
       ELSE UnwrapOr(ParseU32(t), 0)

\* The percentage arm of parse_rate / parse_pitch / parse_volume
ParsePercent(pct) == RatOver(UnwrapOr(ParseF32(Trim(pct)), <<100, 1>>), <<100, 1>>)

\* parse_rate
ParseRate(s) ==
    LET t == ToLowercase(Trim(s))
    IN IF t = <<"x", "-", "s", "l", "o", "w">> THEN <<1, 2>>
       ELSE IF t = <<"s", "l", "o", "w">> THEN <<3, 4>>
       ELSE IF t = <<"m", "e", "d", "i", "u", "m">> THEN <<1, 1>>
       ELSE IF t = <<"f", "a", "s", "t">> THEN <<5, 4>>
       ELSE IF t = <<"x", "-", "f", "a", "s", "t">> THEN <<3, 2>>
       ELSE IF t = <<"d", "e", "f", "a", "u", "l", "t">> THEN <<1, 1>>
       ELSE IF EndsWith(t, <<"%">>) THEN ParsePercent(StripSuffix(t, <<"%">>))
       ELSE UnwrapOr(ParseF32(t), <<1, 1>>)

\* 2.0_f32.powf(semitones / 12.0), for whole octaves
SemitonesToMultiplier(semitones) ==
    CASE semitones = <<0, 1>> -> <<1, 1>>
      [] semitones = <<12, 1>> -> <<2, 1>>
      [] semitones = <<-12, 1>> -> <<1, 2>>

\* parse_pitch
ParsePitch(s) ==
    LET t == ToLowercase(Trim(s))
    IN IF t = <<"x", "-", "l", "o", "w">> THEN <<1, 2>>
       ELSE IF t = <<"l", "o", "w">> THEN <<3, 4>>
       ELSE IF t = <<"m", "e", "d", "i", "u", "m">> THEN <<1, 1>>
       ELSE IF t = <<"h", "i", "g", "h">> THEN <<5, 4>>
       ELSE IF t = <<"x", "-", "h", "i", "g", "h">> THEN <<3, 2>>
       ELSE IF t = <<"d", "e", "f", "a", "u", "l", "t">> THEN <<1, 1>>
       ELSE IF EndsWith(t, <<"%">>) THEN ParsePercent(StripSuffix(t, <<"%">>))
       ELSE IF EndsWith(t, <<"s", "t">>)
       THEN SemitonesToMultiplier(
                UnwrapOr(ParseF32(Trim(StripSuffix(t, <<"s", "t">>))), <<0, 1>>))
       ELSE IF EndsWith(t, <<"h", "z">>) THEN <<1, 1>>
       ELSE UnwrapOr(ParseF32(t), <<1, 1>>)

\* 10.0_f32.powf(db / 20.0), for whole factors of ten
DecibelsToMultiplier(db) ==
    CASE db = <<0, 1>> -> <<1, 1>>
      [] db = <<20, 1>> -> <<10, 1>>
      [] db = <<-20, 1>> -> <<1, 10>>

\* parse_volume
ParseVolume(s) ==
    LET t == ToLowercase(Trim(s))
    IN IF t = <<"s", "i", "l", "e", "n", "t">> THEN <<0, 1>>
       ELSE IF t = <<"x", "-", "s", "o", "f", "t">> THEN <<1, 4>>
       ELSE IF t = <<"s", "o", "f", "t">> THEN <<1, 2>>
       ELSE IF t = <<"m", "e", "d", "i", "u", "m">> THEN <<1, 1>>
       ELSE IF t = <<"l", "o", "u", "d">> THEN <<3, 2>>
       ELSE IF t = <<"x", "-", "l", "o", "u", "d">> THEN <<2, 1>>
       ELSE IF t = <<"d", "e", "f", "a", "u", "l", "t">> THEN <<1, 1>>
       ELSE IF EndsWith(t, <<"%">>) THEN ParsePercent(StripSuffix(t, <<"%">>))
       ELSE IF EndsWith(t, <<"d", "b">>)
       THEN DecibelsToMultiplier(
                UnwrapOr(ParseF32(Trim(StripSuffix(t, <<"d", "b">>))), <<0, 1>>))
       ELSE UnwrapOr(ParseF32(t), <<1, 1>>)

\* parse_contour
ParseContour(s) ==
    LET t == ToLowercase(Trim(s))
    IN IF Contains(t, <<"+">>) \/ EndsWith(t, <<")">>)
       THEN IF Contains(t, <<"1", "0", "0", "%", ",", "+">>) \/ Contains(t, <<"1", "0", "0", "%", ",", " ", "+">>) THEN "Rising"
            ELSE IF Contains(t, <<"1", "0", "0", "%", ",", "-">>) \/ Contains(t, <<"1", "0", "0", "%", ",", " ", "-">>) THEN "Falling"
            ELSE "Flat"
       ELSE "Flat"

\* str::replace
RECURSIVE Replace(_, _, _)
Replace(s, from, to) ==
    IF s = <<>> THEN <<>>
    ELSE IF StartsWith(s, from)
    THEN to \o Replace(SubSeq(s, Len(from) + 1, Len(s)), from, to)
    ELSE <<Head(s)>> \o Replace(Tail(s), from, to)

\* decode_entities
DecodeEntities(s) ==
    Replace(Replace(Replace(Replace(Replace(s, <<"&", "a", "m", "p", ";">>, <<"&">>), <<"&", "l", "t", ";">>, <<"<">>),
                            <<"&", "g", "t", ";">>, <<">">>), <<"&", "q", "u", "o", "t", ";">>, <<"\"">>), <<"&", "a", "p", "o", "s", ";">>, <<"'">>)

\* ------------------------------------------------------------------------
\* ssml.rs: SimpleXmlParser
\*
\* The parser holds the input and a byte position.  It reads single bytes as
\* characters (`as_bytes()[pos] as char`) and takes string slices between
\* byte positions; a slice panics unless both ends are character boundaries
\* and start <= end <= len.  Each parsing function returns a record: status
\* "Ok" with the position reached and the value, "Err" with the message of
\* the SynthesisError, or "Panic" with the function that panicked.  A
\* function's steps after a call it makes are written as an operator of that
\* call's result.
\* ------------------------------------------------------------------------

POk(pos, value) == [status |-> "Ok", pos |-> pos, value |-> value, error |-> ""]
PErr(message) == [status |-> "Err", pos |-> 0, value |-> <<>>, error |-> message]
PPanic(site) == [status |-> "Panic", pos |-> 0, value |-> <<>>, error |-> site]

SetMin(S) == CHOOSE x \in S : \A y \in S : x <= y
SetMax(S) == CHOOSE x \in S : \A y \in S : x >= y

\* str::as_bytes
Utf8(s) == Flatten([i \in DOMAIN s |-> Utf8Bytes(s[i])])

\* The bytes 0x80..0xBF of the model: the second byte of a character
IsContinuationByte(b) ==
    b \in {"xA1", "xA9", "xAD", "xB3", "xBA", "xBC", "xB1", "x81", "x89", "x8D",
           "x93", "x9A", "x9C", "x91", "xBF"}

\* (b as char).is_alphanumeric(): the byte read as the code point of the
\* same number.  U+00C2 and U+00C3 are letters, U+00BA is a letter, U+00B3
\* and U+00BC are numeric; the other non-ASCII bytes of the model are not.
IsAlphanumericByte(b) ==
    b \in Range(LowerAscii) \cup Range(UpperAscii) \cup Digits
          \cup {"xC2", "xC3", "xBA", "xB3", "xBC"}

\* (b as char).is_whitespace()
IsWhitespaceByte(b) == b \in Whitespace

\* The test of parse_name's loop
IsNameByte(b) == IsAlphanumericByte(b) \/ b \in {"-", "_", ":"}

\* SimpleXmlParser::new
SimpleXmlParserNew(input) == [input |-> input, bytes |-> Utf8(input), pos |-> 0]

At(p, pos) == [p EXCEPT !.pos = pos]

\* self.input.len()
InputLen(p) == Len(p.bytes)

\* The byte offset at which the i-th character of the input starts
CharStart(p, i) == ByteLen(SubSeq(p.input, 1, i - 1))

\* str::is_char_boundary
IsCharBoundary(p, i) ==
    \/ i = 0
    \/ i = InputLen(p)
    \/ i < InputLen(p) /\ ~IsContinuationByte(p.bytes[i + 1])

\* The characters with the indices of a set of consecutive indices
CharsAt(s, inside) ==
    IF inside = {} THEN <<>> ELSE SubSeq(s, SetMin(inside), SetMax(inside))

\* &self.input[a..b]: <<the slice>>, or <<>> when the slicing panics
Slice(p, a, b) ==
    IF a <= b /\ b <= InputLen(p) /\ IsCharBoundary(p, a) /\ IsCharBoundary(p, b)
    THEN <<CharsAt(p.input, {i \in DOMAIN p.input : CharStart(p, i) \in a .. (b - 1)})>>
    ELSE <<>>

\* The result of a function that returns a slice taken up to `end`
SliceResult(site, end, slice) ==
    IF slice = <<>> THEN PPanic(site) ELSE POk(end, slice[1])

\* SimpleXmlParser::peek: the byte at pos, "" for None
Peek(p) == IF p.pos < InputLen(p) THEN p.bytes[p.pos + 1] ELSE ""

\* &self.input[self.pos..] panics
TailPanics(p) == Slice(p, p.pos, InputLen(p)) = <<>>

\* SimpleXmlParser::peek_str, where the slice does not panic
PeekStr(p, s) == StartsWith(SubSeq(p.bytes, p.pos + 1, InputLen(p)), s)

\* The least element of a set of positions, or a default when it is empty
FirstOr(S, default) == IF S = {} THEN default ELSE SetMin(S)

\* Where a loop `while self.pos < self.input.len()` that advances pos by one
\* stops, given the positions at which its body breaks
ScanTo(p, stops) ==
    IF p.pos >= InputLen(p) THEN p.pos ELSE FirstOr(stops, InputLen(p))

\* SimpleXmlParser::skip_whitespace
SkipWhitespace(p) ==
    At(p, ScanTo(p, {i \in p.pos .. InputLen(p) - 1 : ~IsWhitespaceByte(p.bytes[i + 1])}))

\* SimpleXmlParser::skip_until, where the slice does not panic: the position
\* reached
SkipUntil(p, pattern) ==
    FirstOr({i \in p.pos .. InputLen(p) - Len(pattern) :
                SubSeq(p.bytes, i + 1, i + Len(pattern)) = pattern},
            InputLen(p))

\* SimpleXmlParser::parse_name
ParseName(p) ==
    LET end == ScanTo(p, {i \in p.pos .. InputLen(p) - 1 : ~IsNameByte(p.bytes[i + 1])})
    IN SliceResult("parse_name", end, Slice(p, p.pos, end))

\* parse_attribute_value: the slice between the quotes
QuotedValue(close, slice) ==
    IF slice = <<>> THEN PPanic("parse_attribute_value")
    ELSE POk(close + 1, DecodeEntities(slice[1]))

\* parse_attribute_value: the loop that looks for the closing quote
ParseAttributeValueTo(p, closes) ==
    IF closes = {} THEN PErr("Invalid SSML: unclosed attribute value")
    ELSE QuotedValue(SetMin(closes), Slice(p, p.pos + 1, SetMin(closes)))

\* SimpleXmlParser::parse_attribute_value
ParseAttributeValue(p) ==
    IF Peek(p) # "\"" /\ Peek(p) # "'"
    THEN PErr("Invalid SSML: expected quoted attribute value")
    ELSE ParseAttributeValueTo(
             p, {i \in p.pos + 1 .. InputLen(p) - 1 : p.bytes[i + 1] = Peek(p)})

\* HashMap::new
EmptyMap == [k \in {} |-> <<>>]

\* HashMap::insert
Insert(map, key, value) ==
    [k \in DOMAIN map \cup {key} |-> IF k = key THEN value ELSE map[k]]

RECURSIVE ParseAttributesFrom(_, _)

\* parse_attributes: after the value of the attribute `name`
AttributeValued(r, name, value, attrs) ==
    IF value.status # "Ok" THEN value
    ELSE ParseAttributesFrom(At(r, value.pos),
                             Insert(attrs, ToLowercase(name), value.value))

\* parse_attributes: after parse_name
AttributeName(q, name, attrs) ==
    IF name.status # "Ok" THEN name
    ELSE IF name.value = <<>> THEN POk(name.pos, attrs)
    ELSE LET r == SkipWhitespace(At(q, name.pos))
         IN IF Peek(r) = "="
            THEN AttributeValued(r, name.value,
                                 ParseAttributeValue(SkipWhitespace(At(r, r.pos + 1))),
                                 attrs)
            ELSE ParseAttributesFrom(r, attrs)

\* The loop of parse_attributes with the attributes read so far
ParseAttributesFrom(p, attrs) ==
    LET q == SkipWhitespace(p)
    IN IF q.pos >= InputLen(q) \/ Peek(q) = ">" \/ Peek(q) = "/"
       THEN POk(q.pos, attrs)
       ELSE AttributeName(q, ParseName(q), attrs)

\* SimpleXmlParser::parse_attributes
ParseAttributes(p) == ParseAttributesFrom(p, EmptyMap)

\* parse_text: the slice from pos to the next '<', trimmed and decoded
ParseTextTo(end, slice) ==
    IF slice = <<>> THEN PPanic("parse_text")
    ELSE POk(end, DecodeEntities(Trim(slice[1])))

\* parse_text: the loop that looks for '<'
TextEnd(p) == ScanTo(p, {i \in p.pos .. InputLen(p) - 1 : p.bytes[i + 1] = "<"})

\* SimpleXmlParser::parse_text
ParseText(p) == ParseTextTo(TextEnd(p), Slice(p, p.pos, TextEnd(p)))

\* skip_closing_tag: after parse_name
ClosingTagNamed(q, name, tag_name) ==
    IF name.status # "Ok" THEN name
    ELSE IF ToLowercase(name.value) = ToLowercase(tag_name)
    THEN LET r == SkipWhitespace(At(q, name.pos))
         IN POk(IF Peek(r) = ">" THEN r.pos + 1 ELSE r.pos, <<>>)
    ELSE POk(name.pos, <<>>)

\* SimpleXmlParser::skip_closing_tag
SkipClosingTag(p, tag_name) ==
    LET q == SkipWhitespace(p)
    IN IF TailPanics(q) THEN PPanic("peek_str")
       ELSE IF ~PeekStr(q, <<"<", "/">>) THEN POk(q.pos, <<>>)
       ELSE ClosingTagNamed(q, ParseName(At(q, q.pos + 2)), tag_name)

\* The children of a <speak> or unknown element, passed through
Transparent(children) ==
    IF children = <<>> THEN SsmlText(<<>>)
    ELSE IF Len(children) = 1 THEN children[1]
    ELSE [kind |-> "Paragraph", children |-> children]

\* SimpleXmlParser::extract_text
ExtractText(elements) ==
    Flatten([i \in DOMAIN elements |->
                IF elements[i].kind = "Text" THEN elements[i].text ELSE <<>>])

\* HashMap::get: <<value>> for Some, <<>> for None
Get(map, key) == IF key \in DOMAIN map THEN <<map[key]>> ELSE <<>>

\* SimpleXmlParser::create_element
CreateElement(tag_name, attributes, children) ==
    LET tag == ToLowercase(tag_name)
    IN IF tag = <<"s", "p", "e", "a", "k">> THEN Transparent(children)
       ELSE IF tag = <<"b", "r", "e", "a", "k">>
       THEN [kind |-> "Break",
             spec |-> [time_ms |-> IF Get(attributes, <<"t", "i", "m", "e">>) # <<>>
                                   THEN ParseDuration(attributes[<<"t", "i", "m", "e">>])
                                   ELSE BreakSpecDefault.time_ms,
                       strength |-> IF Get(attributes, <<"s", "t", "r", "e", "n", "g", "t", "h">>) # <<>>
                                    THEN BreakStrengthParse(attributes[<<"s", "t", "r", "e", "n", "g", "t", "h">>])
                                    ELSE BreakSpecDefault.strength]]
       ELSE IF tag = <<"p", "r", "o", "s", "o", "d", "y">>
       THEN [kind |-> "Prosody", children |-> children,
             config |->
                 [rate_multiplier |-> IF Get(attributes, <<"r", "a", "t", "e">>) # <<>>
                                      THEN ParseRate(attributes[<<"r", "a", "t", "e">>])
                                      ELSE ProsodyConfigDefault.rate_multiplier,
                  pitch_multiplier |-> IF Get(attributes, <<"p", "i", "t", "c", "h">>) # <<>>
                                       THEN ParsePitch(attributes[<<"p", "i", "t", "c", "h">>])
                                       ELSE ProsodyConfigDefault.pitch_multiplier,
                  volume_multiplier |-> IF Get(attributes, <<"v", "o", "l", "u", "m", "e">>) # <<>>
                                        THEN ParseVolume(attributes[<<"v", "o", "l", "u", "m", "e">>])
                                        ELSE ProsodyConfigDefault.volume_multiplier,
                  contour |-> IF Get(attributes, <<"c", "o", "n", "t", "o", "u", "r">>) # <<>>
                              THEN ParseContour(attributes[<<"c", "o", "n", "t", "o", "u", "r">>])
                              ELSE ProsodyConfigDefault.contour,
                  emphasis |-> ProsodyConfigDefault.emphasis]]
       ELSE IF tag = <<"e", "m", "p", "h", "a", "s", "i", "s">>
       THEN [kind |-> "Emphasis", children |-> children,
             level |-> IF Get(attributes, <<"l", "e", "v", "e", "l">>) # <<>>
                       THEN EmphasisLevelParse(attributes[<<"l", "e", "v", "e", "l">>])
                       ELSE "Moderate"]
       ELSE IF tag = <<"s", "a", "y", "-", "a", "s">>
       THEN [kind |-> "SayAs", text |-> ExtractText(children),
             interpret_as |-> UnwrapOr(Get(attributes, <<"i", "n", "t", "e", "r", "p", "r", "e", "t", "-", "a", "s">>), <<>>)]
       ELSE IF tag = <<"s", "u", "b">>
       THEN [kind |-> "Sub", alias |-> UnwrapOr(Get(attributes, <<"a", "l", "i", "a", "s">>), <<>>)]
       ELSE IF tag = <<"v", "o", "i", "c", "e">>
       THEN [kind |-> "Voice", children |-> children, name |-> Get(attributes, <<"n", "a", "m", "e">>)]
       ELSE IF tag = <<"p">> \/ tag = <<"p", "a", "r", "a", "g", "r", "a", "p", "h">>
       THEN [kind |-> "Paragraph", children |-> children]
       ELSE IF tag = <<"s">> \/ tag = <<"s", "e", "n", "t", "e", "n", "c", "e">>
       THEN [kind |-> "Sentence", children |-> children]
       ELSE Transparent(children)

\* parse_element: after parse_attributes, the self-closing mark and the '>'
\* that ends the tag
TagAttributes(q, tag_name, attributes) ==
    IF attributes.status # "Ok" THEN attributes
    ELSE LET r == SkipWhitespace(At(q, attributes.pos))
             self_closing == Peek(r) = "/"
             s == IF self_closing THEN At(r, r.pos + 1) ELSE r
         IN IF Peek(s) # ">" THEN PErr("Invalid SSML: expected '>' after tag")
            ELSE POk(s.pos + 1, [tag_name |-> tag_name, attributes |-> attributes.value,
                                 self_closing |-> self_closing])

\* parse_element: after parse_name
TagNamed(q, tag_name) ==
    IF tag_name.status # "Ok" THEN tag_name
    ELSE IF tag_name.value = <<>> THEN PErr("Invalid SSML: empty tag name")
    ELSE TagAttributes(q, tag_name.value, ParseAttributes(At(q, tag_name.pos)))

\* parse_element up to the '>' of the tag: the name, the attributes, the
\* self-closing mark
ParseTagHead(p) ==
    LET q == SkipWhitespace(At(p, p.pos + 1))
    IN TagNamed(q, ParseName(q))

RECURSIVE ParseFrom(_, _)

\* parse_element: after skip_closing_tag
ElementClosed(closed, head, children) ==
    IF closed.status # "Ok" THEN closed
    ELSE POk(closed.pos, CreateElement(head.tag_name, head.attributes, children))

\* parse_element: after the children
ElementChildren(p, head, children) ==
    IF children.status # "Ok" THEN children
    ELSE ElementClosed(SkipClosingTag(At(p, children.pos), head.tag_name),
                       head, children.value)

\* parse_element: after the tag
ElementAfterHead(p, head) ==
    IF head.status # "Ok" THEN head
    ELSE IF head.value.self_closing
    THEN ElementClosed(POk(head.pos, <<>>), head.value, <<>>)
    ELSE ElementChildren(p, head.value, ParseFrom(At(p, head.pos), <<>>))

\* SimpleXmlParser::parse_element
ParseElement(p) == ElementAfterHead(p, ParseTagHead(p))

\* parse: after parse_element
ParseAfterElement(q, element, elements) ==
    IF element.status # "Ok" THEN element
    ELSE ParseFrom(At(q, element.pos), Append(elements, element.value))

\* parse: after parse_text
ParseAfterText(q, t, elements) ==
    IF t.status # "Ok" THEN t
    ELSE ParseFrom(At(q, t.pos),
                   IF t.value = <<>> THEN elements
                   ELSE Append(elements, SsmlText(t.value)))

\* The while loop of SimpleXmlParser::parse with the elements read so far
ParseFrom(p, elements) ==
    LET q == SkipWhitespace(p)
    IN IF p.pos >= InputLen(p) \/ q.pos >= InputLen(q) THEN POk(q.pos, elements)
       ELSE IF Peek(q) = "<"
       THEN IF TailPanics(q) THEN PPanic("peek_str")
            ELSE IF PeekStr(q, <<"<", "?">>)
            THEN ParseFrom(At(q, SkipUntil(q, <<"?", ">">>) + 2), elements)
            ELSE IF PeekStr(q, <<"<", "!", "-", "-">>)
            THEN ParseFrom(At(q, SkipUntil(q, <<"-", "-", ">">>) + 3), elements)
            ELSE IF PeekStr(q, <<"<", "/">>) THEN POk(q.pos, elements)
            ELSE ParseAfterElement(q, ParseElement(q), elements)
       ELSE ParseAfterText(q, ParseText(q), elements)

\* SimpleXmlParser::parse
Parse(p) == ParseFrom(p, <<>>)

\* SsmlParser::parse: the elements of the document
SsmlParserParse(input) ==
    IF ~StartsWith(Trim(input), <<"<">>) THEN POk(0, <<SsmlText(input)>>)
    ELSE Parse(SimpleXmlParserNew(Trim(input)))

\* SsmlParser::is_ssml
IsSsml(input) ==
    StartsWith(Trim(input), <<"<", "s", "p", "e", "a", "k">>) \/ StartsWith(Trim(input), <<"<", "?", "x", "m", "l">>)

\* ------------------------------------------------------------------------
\* ssml.rs: SsmlDocument::to_synthesis_segments
\* ------------------------------------------------------------------------

\* SynthesisSegment
SynthesisSegment(t, prosody) == [text |-> t, prosody |-> prosody]

\* format!("__break_{}__", duration)
\* A marker without the closing underscores
BreakMarkerUnclosed(duration) == <<"_", "_", "b", "r", "e", "a", "k", "_">> \o ToDecimal(duration)

BreakMarker(duration) == <<"_", "_", "b", "r", "e", "a", "k", "_">> \o ToDecimal(duration) \o <<"_", "_">>

RECURSIVE CollectSegments(_, _)

\* The match of collect_segments for one element
CollectElement(element, parent_prosody) ==
    CASE element.kind = "Text" ->
            IF Trim(element.text) # <<>>
            THEN <<SynthesisSegment(element.text, parent_prosody)>>
            ELSE <<>>
      [] element.kind = "Break" ->
            LET duration == IF element.spec.time_ms > 0 THEN element.spec.time_ms
                            ELSE BreakStrengthToMs(element.spec.strength)
            IN <<SynthesisSegment(BreakMarker(duration),
                                  ProsodyWithVolume(ProsodyConfigDefault, <<0, 1>>))>>
      [] element.kind = "Prosody" ->
            CollectSegments(element.children,
                [pitch_multiplier |-> RatTimes(parent_prosody.pitch_multiplier,
                                               element.config.pitch_multiplier),
                 rate_multiplier |-> RatTimes(parent_prosody.rate_multiplier,
                                              element.config.rate_multiplier),
                 volume_multiplier |-> RatTimes(parent_prosody.volume_multiplier,
                                                element.config.volume_multiplier),
                 contour |-> IF element.config.contour # "Flat"
                             THEN element.config.contour
                             ELSE parent_prosody.contour,
                 emphasis |-> IF RatLt(element.config.emphasis, parent_prosody.emphasis)
                              THEN parent_prosody.emphasis
                              ELSE element.config.emphasis])
      [] element.kind = "Emphasis" ->
            CollectSegments(element.children,
                [pitch_multiplier |-> parent_prosody.pitch_multiplier,
                 rate_multiplier |-> parent_prosody.rate_multiplier,
                 volume_multiplier |-> RatTimes(parent_prosody.volume_multiplier,
                                                ToVolumeMultiplier(element.level)),
                 contour |-> parent_prosody.contour,
                 emphasis |-> ToEmphasisValue(element.level)])
      [] element.kind = "SayAs" -> <<SynthesisSegment(element.text, parent_prosody)>>
      [] element.kind = "Sub" -> <<SynthesisSegment(element.alias, parent_prosody)>>
      [] element.kind \in {"Voice", "Paragraph", "Sentence"} ->
            CollectSegments(element.children, parent_prosody)

\* SsmlDocument::collect_segments
CollectSegments(elements, parent_prosody) ==
    Flatten([i \in DOMAIN elements |-> CollectElement(elements[i], parent_prosody)])

\* Flattening that starts from a fast prosody instead of the default one
ToSynthesisSegmentsFast(elements) ==
    CollectSegments(elements, [ProsodyConfigDefault EXCEPT !.rate_multiplier = <<5, 4>>])

\* SsmlDocument::to_synthesis_segments
ToSynthesisSegments(elements) == CollectSegments(elements, ProsodyConfigDefault)

\* ------------------------------------------------------------------------
\* synthesizer.rs: synthesize_ssml
\* ------------------------------------------------------------------------

\* Synthesizer::create_formant_synthesizer_with_prosody
CreateFormantSynthesizerWithProsody(c, prosody) ==
    SynthesisConfig(RatTimes(EffectivePitchHz(c), prosody.pitch_multiplier),
                    RatTimes(RateMultiplier(c), prosody.rate_multiplier),
                    RatMin(RatTimes(VolumeLevel(c), prosody.volume_multiplier), <<1, 1>>))

\* formant.rs: with rate 0.0 a sample count is +inf cast to usize, which is
\* usize::MAX, and Vec::with_capacity(duration_samples) in synthesize_phoneme
\* or Vec::extend(repeat_n(0.0, pause_samples)) in synthesize_phonemes panics
\* with a capacity overflow.  That happens at the first pause or phoneme of
\* the inventory.
SynthesizePhonemesPanics(config, phoneme_tokens, inventory) ==
    /\ config.rate[1] = 0
    /\ \E i \in DOMAIN phoneme_tokens :
          phoneme_tokens[i] = "_" \/ InventoryGet(inventory, phoneme_tokens[i]) # <<>>

\* std::iter::repeat_n(0i16, silence_samples)
SilenceRun(n) ==
    IF n = 0 THEN <<>>
    ELSE <<[tok |-> 0, sym |-> "silence", lo |-> 0, hi |-> n, pitch |-> <<0, 1>>,
            volume |-> <<0, 1>>, fmt |-> "i16"]>>

\* The result of synthesize_ssml and of SsmlParser::parse
SsmlOk(elements, samples) ==
    [kind |-> "Ok", error |-> "", message |-> "", elements |-> elements,
     audio |-> samples]
SsmlFailed(r) ==
    [kind |-> r.status,
     error |-> IF r.status = "Err" THEN "SynthesisError" ELSE "",
     message |-> r.error, elements |-> <<>>, audio |-> NoAudio]

\* An f32 is kept as [m, e], the value m * 2^e with m below 2^24 (a 24 bit
\* significand); results are rounded to nearest, ties to even.  The values
\* here are positive and far from the subnormal and the infinite.
\* The number of bits of n
BitLen(n) == CHOOSE b \in 0..30 : (b = 0 \/ 2 ^ (b - 1) <= n) /\ n < 2 ^ b

\* Round to nearest, ties to even: q with the remainder rem out of 2 * half
RoundHalfEven(q, rem, half) ==
    IF rem > half \/ (rem = half /\ q % 2 = 1) THEN q + 1 ELSE q

RECURSIVE F32QuotientBits(_, _, _, _)

\* The long division n / d, one bit at a time, until 24 bits are there
F32QuotientBits(q, r, d, e) ==
    IF q >= 2 ^ 23 THEN [m |-> RoundHalfEven(q, 2 * r, d), e |-> e]
    ELSE F32QuotientBits(2 * q + ((2 * r) \div d), (2 * r) % d, d, e - 1)

\* n as f32 / d as f32, for n below 2^24 and d below 2^24
F32Quotient(n, d) ==
    IF n = 0 THEN [m |-> 0, e |-> 0] ELSE F32QuotientBits(n \div d, n % d, d, 0)

\* hi * 2^12 + lo, rounded to 24 bits
F32OfParts(hi, lo, e) ==
    LET s == BitLen(hi) - 12
    IN IF s <= 0 THEN [m |-> hi * 4096 + lo, e |-> e]
       ELSE IF s <= 12
       THEN [m |-> RoundHalfEven(hi * 2 ^ (12 - s) + (lo \div 2 ^ s), lo % 2 ^ s,
                                 2 ^ (s - 1)),
             e |-> e + s]
       ELSE [m |-> RoundHalfEven(hi \div 2 ^ (s - 12),
                                 (hi % 2 ^ (s - 12)) * 4096 + lo, 2 ^ (s - 1)),
             e |-> e + s]

\* x * k as f32, for an integer k below 2^15: the product of the significand
\* in two halves of 12 bits
F32Times(x, k) ==
    F32OfParts((x.m \div 4096) * k + (((x.m % 4096) * k) \div 4096),
               ((x.m % 4096) * k) % 4096, x.e)

\* x as usize: the fraction is dropped
F32ToUsize(x) ==
    IF x.e >= 0 THEN x.m * 2 ^ x.e
    ELSE IF -x.e > 24 THEN 0
    ELSE x.m \div 2 ^ (-x.e)

\* (duration_ms as f32 / 1000.0 * SAMPLE_RATE as f32) as usize
SilenceSamples(duration_ms) ==
    F32ToUsize(F32Times(F32Quotient(duration_ms, 1000), SAMPLE_RATE))

\* synthesize_segments: the silence of a break marker whose duration parsed
BreakSamples(duration_ms) ==
    IF duration_ms = <<>> THEN <<>>
    ELSE SilenceRun(SilenceSamples(duration_ms[1]))

\* synthesize_segments: the samples of a segment's phonemes
SpeakPhonemes(config, phonemes, inventory) ==
    IF phonemes = <<>> THEN POk(0, <<>>)
    ELSE IF SynthesizePhonemesPanics(config, phonemes, inventory)
    THEN PPanic("synthesize_phoneme")
    ELSE POk(0, ToPcm16(SynthesizePhonemes(config, phonemes, inventory)))

\* The body of the for loop of synthesize_segments: the samples the segment
\* adds.  &segment.text[8..len - 2] panics when 8 > len - 2.
SynthesizeSegment(c, segment) ==
    IF StartsWith(segment.text, <<"_", "_", "b", "r", "e", "a", "k", "_">>) /\ EndsWith(segment.text, <<"_", "_">>)
    THEN IF 8 > ByteLen(segment.text) - 2 THEN PPanic("synthesize_segments")
         ELSE POk(0, BreakSamples(
                         ParseU32(SubSeq(segment.text, 9, Len(segment.text) - 2))))
    ELSE IF Trim(segment.text) = <<>> THEN POk(0, <<>>)
    ELSE SpeakPhonemes(CreateFormantSynthesizerWithProsody(c, segment.prosody),
                       Convert(GetG2P(c.language), segment.text),
                       GetInventory(c.language))

RECURSIVE SynthesizeSegmentsFrom(_, _, _)

\* synthesize_segments: after a segment
AfterSegment(c, rest, all_samples, added) ==
    IF added.status # "Ok" THEN SsmlFailed(added)
    ELSE SynthesizeSegmentsFrom(c, rest, all_samples \o added.value)

\* The for loop of synthesize_segments with the samples collected so far
SynthesizeSegmentsFrom(c, segments, all_samples) ==
    IF segments = <<>>
    THEN SsmlOk(<<>>, AudioOutputNew(all_samples, SAMPLE_RATE, 1))
    ELSE AfterSegment(c, Tail(segments), all_samples,
                      SynthesizeSegment(c, Head(segments)))

\* Synthesizer::synthesize_segments
SynthesizeSegments(c, segments) ==
    IF segments = <<>> THEN SsmlOk(<<>>, AudioOutputNew(<<>>, SAMPLE_RATE, 1))
    ELSE SynthesizeSegmentsFrom(c, segments, <<>>)

\* synthesize_ssml: after SsmlParser::parse
SynthesizeDocument(c, doc) ==
    IF doc.status # "Ok" THEN SsmlFailed(doc)
    ELSE SynthesizeSegments(c, ToSynthesisSegments(doc.value))

\* Synthesizer::synthesize_ssml
SynthesizeSsml(c, input) == SynthesizeDocument(c, SsmlParserParse(input))

\* The Result of SsmlParser::parse
ParseResult(doc) ==
    IF doc.status = "Ok" THEN SsmlOk(doc.value, NoAudio) ELSE SsmlFailed(doc)

\* ------------------------------------------------------------------------
\* SSML state machine: a Synthesizer, and calls of SsmlParser::parse and
\* Synthesizer::synthesize_ssml on it.  ssml holds the call that has
\* returned (or panicked) until its caller has taken the result.
\* ------------------------------------------------------------------------

MaxSsmlLen == 3

SsmlAlphabet == {"<", ">", "/", "a", "?", "eacute"}

\* Documents, plain texts and malformed inputs
SsmlCorpus ==
    {
      <<"h", "e", "l", "l", "o">>,
      <<"a", " ", "<", " ", "a">>,
      <<"_", "_", "b", "r", "e", "a", "k", "_", "_">>,
      <<"_", "_", "b", "r", "e", "a", "k", "_", "5", "_", "_">>,
      <<"_", "_", "b", "r", "e", "a", "k", "_", "x", "_", "_">>,
      <<" ", "<", "p", ">", "a", "<", "/", "p", ">", " ">>,
      <<"<", "s", "p", "e", "a", "k", ">", "<", "/", "s", "p", "e", "a", "k", ">">>,
      <<"<", "s", "p", "e", "a", "k", ">", "h", "e", "l", "l", "o", "<", "/", "s", "p", "e", "a", "k", ">">>,
      <<"<", "s", "p", "e", "a", "k", ">", "a", "<", "b", "r", "e", "a", "k", " ", "t", "i", "m", "e", "=", "\"", "5", "0", "0", "m", "s", "\"", "/", ">", "a", "<", "/", "s", "p", "e", "a", "k", ">">>,
      <<"<", "b", "r", "e", "a", "k", " ", "t", "i", "m", "e", "=", "\"", "2", "s", "\"", "/", ">">>,
      <<"<", "b", "r", "e", "a", "k", " ", "s", "t", "r", "e", "n", "g", "t", "h", "=", "\"", "s", "t", "r", "o", "n", "g", "\"", "/", ">">>,
      <<"<", "b", "r", "e", "a", "k", "/", ">">>,
      <<"<", "b", "r", "e", "a", "k", " ", "t", "i", "m", "e", "=", "\"", "0", ".", "5", "s", "\"", "/", ">">>,
      <<"<", "p", "r", "o", "s", "o", "d", "y", " ", "r", "a", "t", "e", "=", "\"", "f", "a", "s", "t", "\"", ">", "a", "<", "/", "p", "r", "o", "s", "o", "d", "y", ">">>,
      <<"<", "p", "r", "o", "s", "o", "d", "y", " ", "r", "a", "t", "e", "=", "\"", "x", "-", "s", "l", "o", "w", "\"", " ", "p", "i", "t", "c", "h", "=", "\"", "h", "i", "g", "h", "\"", " ", "v", "o", "l", "u", "m", "e", "=", "\"", "s", "o", "f", "t", "\"", ">", "h", "o", "l", "a", "<", "/", "p", "r", "o", "s", "o", "d", "y", ">">>,
      <<"<", "p", "r", "o", "s", "o", "d", "y", " ", "r", "a", "t", "e", "=", "\"", "2", "0", "0", "%", "\"", ">", "<", "p", "r", "o", "s", "o", "d", "y", " ", "r", "a", "t", "e", "=", "\"", "5", "0", "%", "\"", ">", "a", "<", "/", "p", "r", "o", "s", "o", "d", "y", ">", "<", "/", "p", "r", "o", "s", "o", "d", "y", ">">>,
      <<"<", "p", "r", "o", "s", "o", "d", "y", " ", "r", "a", "t", "e", "=", "\"", "-", "1", "\"", ">", "a", "<", "/", "p", "r", "o", "s", "o", "d", "y", ">">>,
      <<"<", "p", "r", "o", "s", "o", "d", "y", " ", "c", "o", "n", "t", "o", "u", "r", "=", "\"", "(", "0", "%", ",", "+", "0", "%", ")", " ", "(", "1", "0", "0", "%", ",", "+", "5", "0", "%", ")", "\"", ">", "a", "<", "/", "p", "r", "o", "s", "o", "d", "y", ">">>,
      <<"<", "e", "m", "p", "h", "a", "s", "i", "s", " ", "l", "e", "v", "e", "l", "=", "\"", "s", "t", "r", "o", "n", "g", "\"", ">", "a", "<", "/", "e", "m", "p", "h", "a", "s", "i", "s", ">">>,
      <<"<", "e", "m", "p", "h", "a", "s", "i", "s", ">", "a", "<", "/", "e", "m", "p", "h", "a", "s", "i", "s", ">">>,
      <<"<", "s", "a", "y", "-", "a", "s", " ", "i", "n", "t", "e", "r", "p", "r", "e", "t", "-", "a", "s", "=", "\"", "c", "h", "a", "r", "a", "c", "t", "e", "r", "s", "\"", ">", "a", "<", "/", "s", "a", "y", "-", "a", "s", ">">>,
      <<"<", "s", "u", "b", " ", "a", "l", "i", "a", "s", "=", "\"", "h", "e", "l", "l", "o", "\"", ">", "x", "<", "/", "s", "u", "b", ">">>,
      <<"<", "v", "o", "i", "c", "e", " ", "n", "a", "m", "e", "=", "\"", "e", "n", "\"", ">", "a", "<", "/", "v", "o", "i", "c", "e", ">">>,
      <<"<", "p", ">", "<", "s", ">", "a", "<", "/", "s", ">", "<", "s", ">", "h", "o", "l", "a", "<", "/", "s", ">", "<", "/", "p", ">">>,
      <<"<", "S", "P", "E", "A", "K", ">", "a", "<", "/", "S", "P", "E", "A", "K", ">">>,
      <<"<", "f", "o", "o", ">", "a", "<", "/", "f", "o", "o", ">">>,
      <<"<", "?", "x", "m", "l", " ", "v", "e", "r", "s", "i", "o", "n", "=", "\"", "1", ".", "0", "\"", "?", ">", "<", "s", "p", "e", "a", "k", ">", "a", "<", "/", "s", "p", "e", "a", "k", ">">>,
      <<"<", "!", "-", "-", " ", "c", " ", "-", "-", ">", "<", "s", "p", "e", "a", "k", ">", "a", "<", "/", "s", "p", "e", "a", "k", ">">>,
      <<"<", "s", "p", "e", "a", "k", ">", "a", " ", "&", "a", "m", "p", ";", " ", "a", "<", "/", "s", "p", "e", "a", "k", ">">>,
      <<"<", "s", "p", "e", "a", "k", ">", "_", "_", "b", "r", "e", "a", "k", "_", "_", "<", "/", "s", "p", "e", "a", "k", ">">>,
      <<"<", "a", " ", "b", "=", "'", "c", "'", ">", "a", "<", "/", "a", ">">>,
      <<"<", "a", " ", "b", ">", "a", "<", "/", "a", ">">>,
      <<"<", "s", "p", "e", "a", "k", ">", "a", "<", "/", "s", "p", "e", "a", "k">>,
      <<"<", "a", ">", "a", "<", "/", "b", ">">>,
      <<"<", "/", "a", ">", "<", "b">>,
      <<"<", "/", "a", ">">>,
      <<"<", "a", ">", "a">>,
      <<"<", "a", ">", "<", "b", ">", "a", "<", "/", "a", ">", "<", "/", "b", ">">>,
      <<"<", "oacute", ">", "a", "<", "/", "oacute", ">">>,
      <<"<", "s", "p", "e", "a", "k", ">", "n", "i", "ntilde", "o", "<", "/", "s", "p", "e", "a", "k", ">">>,
      <<"<", "s", "p", "e", "a", "k", ">", "<", ">">>,
      <<"<", "a", " ", "b", "=", "c", ">">>,
      <<"<", "a", " ", "b", "=", "'", "c", ">">>,
      <<"<", "a", " ", "b", "=", "\"", "c">>,
      <<"<", " ", ">">>,
      <<"<", "s", "p", "e", "a", "k", ">", "<", "a", "<", "/", "s", "p", "e", "a", "k", ">">>,
      <<"<", "a", " ", "=", ">">>,
      <<"<", "a", " ", "eacute", "=", "\"", "b", "\"", ">">>,
      <<"<", "s", "p", "e", "a", "k", ">", "<", "/", "eacute", ">">>,
      <<"<", "s", "p", "e", "a", "k", ">", "<", "?">>,
      <<"<", "s", "p", "e", "a", "k", ">", "<", "!", "-", "-">>,
      <<"<", "s", "p", "e", "a", "k", ">", "<", "?", "x", "m", "l">>,
      <<"<", "p", "r", "o", "s", "o", "d", "y", " ", "r", "a", "t", "e", "=", "\"", "0", "\"", ">", "a", "<", "/", "p", "r", "o", "s", "o", "d", "y", ">">>,
      <<"<", "p", "r", "o", "s", "o", "d", "y", " ", "r", "a", "t", "e", "=", "\"", "0", "%", "\"", ">", "a", " ", "a", "<", "/", "p", "r", "o", "s", "o", "d", "y", ">">>,
      <<"<", "p", "r", "o", "s", "o", "d", "y", " ", "r", "a", "t", "e", "=", "\"", "0", "\"", ">", "x", "<", "/", "p", "r", "o", "s", "o", "d", "y", ">">> }

SsmlInputs == SeqsUpTo(SsmlAlphabet, MaxSsmlLen) \cup SsmlCorpus

\* Synthesizer::new()
InitSsml ==
    /\ synth = [valid |-> TRUE, config |-> VoiceConfigNew("English")]
    /\ last_call = [op |-> "new", arg |-> 0, before |-> VoiceConfigNew("English")]
    /\ voice_builder = NoBuilder
    /\ streamer = NoStreamer
    /\ text = NoText
    /\ stream = NoStream
    /\ chunks = <<>>
    /\ audio = NoAudio
    /\ ssml = NoSsml
    /\ engines = NoEngines
    /\ call_log = NoCalls
    /\ g2p = NoG2P

UnchangedButSsml ==
    UNCHANGED <<voice_builder, synth, last_call, streamer, text, stream, chunks, audio,
                engines, call_log, g2p>>

\* SsmlParser::parse(input)
CallSsmlParserParse(input) ==
    /\ ssml.phase = "idle"
    /\ ssml' = [phase |-> "done", op |-> "parse", input |-> input,
                result |-> ParseResult(SsmlParserParse(input))]
    /\ UnchangedButSsml

\* synth.synthesize_ssml(input)
CallSynthesizeSsml(input) ==
    /\ synth.valid
    /\ ssml.phase = "idle"
    /\ ssml' = [phase |-> "done", op |-> "synthesize_ssml", input |-> input,
                result |-> SynthesizeSsml(synth.config, input)]
    /\ UnchangedButSsml

\* The caller takes the result (or the panic has unwound)
SsmlReturn ==
    /\ ssml.phase = "done"
    /\ ssml' = NoSsml
    /\ UnchangedButSsml

\* synth.set_language(l) between calls
SsmlSetLanguage(l) ==
    /\ ssml.phase = "idle"
    /\ CallSetLanguage(l)

NextSsml ==
    \/ \E input \in SsmlInputs : CallSsmlParserParse(input)
    \/ \E input \in SsmlInputs : CallSynthesizeSsml(input)
    \/ SsmlReturn
    \/ \E l \in Languages : SsmlSetLanguage(l)

SpecSsml == InitSsml /\ [][NextSsml]_vars

\* C6: synthesize_ssml returns Ok or Err for every input and never panics:
\* not for a text equal to or containing a break-sentinel-like string such as
\* __break__, not for tag or attribute names with non-ASCII characters, not
\* for an unterminated <? or <!-- inside an element, not for a prosody rate
\* of 0.
C6_SynthesizeSsmlNeverPanics ==
    (ssml.phase = "done" /\ ssml.op = "synthesize_ssml") =>
        ssml.result.kind \in {"Ok", "Err"}

\* The tags of an input read from left to right, each on its own: whether
\* some start tag has an empty name, is not terminated by '>', has an
\* attribute value that is not quoted, or one whose closing quote is
\* missing.  Declarations, comments and closing tags are passed over.
RECURSIVE HasMalformedTagFrom(_)

\* A closing tag is passed over
MalformedAfter(q, name) == name.status = "Ok" /\ HasMalformedTagFrom(At(q, name.pos))

\* A start tag is malformed when reading it gives an error
MalformedAt(q, head) ==
    \/ head.status = "Err"
    \/ head.status = "Ok" /\ HasMalformedTagFrom(At(q, head.pos))

HasMalformedTagFrom(p) ==
    LET q == SkipWhitespace(p)
    IN IF q.pos >= InputLen(q) THEN FALSE
       ELSE IF Peek(q) # "<" THEN HasMalformedTagFrom(At(q, TextEnd(q)))
       ELSE IF PeekStr(q, <<"<", "?">>)
       THEN HasMalformedTagFrom(At(q, SkipUntil(q, <<"?", ">">>) + 2))
       ELSE IF PeekStr(q, <<"<", "!", "-", "-">>)
       THEN HasMalformedTagFrom(At(q, SkipUntil(q, <<"-", "-", ">">>) + 3))
       ELSE IF PeekStr(q, <<"<", "/">>)
       THEN MalformedAfter(q, ParseName(At(q, q.pos + 2)))
       ELSE MalformedAt(q, ParseTagHead(q))

HasMalformedTag(input) ==
    /\ StartsWith(Trim(input), <<"<">>)
    /\ HasMalformedTagFrom(SimpleXmlParserNew(Trim(input)))

\* C7: SsmlParser::parse and synthesize_ssml return a SynthesisError exactly
\* when the input starts with '<' and contains a tag with an empty name, a
\* tag not terminated by '>', an attribute value that is not quoted or one
\* whose closing quote is missing; every other input (unknown tags, unclosed
\* elements, mismatched or stray closing tags) parses successfully; an error
\* comes with no audio.
C7_ErrorIffMalformedTag ==
    ssml.phase = "done" =>
        /\ ssml.result.kind = "Err" <=> HasMalformedTag(ssml.input)
        /\ ~HasMalformedTag(ssml.input) => ssml.result.kind = "Ok"
        /\ ssml.result.kind = "Err" =>
              /\ ssml.result.error = "SynthesisError"
              /\ ssml.result.audio = NoAudio

\* ------------------------------------------------------------------------
\* formant.rs: the state of a FormantSynthesizer
\*
\* Every sample a FormantSynthesizer produces is computed from its config,
\* its pitch phase, its noise state and the histories of its resonators,
\* and producing it updates them.  The record holds the values at
\* construction and the samples produced since, which determine the values
\* now: synthesizers with equal records are in equal states, and equal runs
\* produced from equal records are equal sample for sample.
\* ------------------------------------------------------------------------

\* The FormantSynthesizer values the calls logged so far have dropped
DroppedSynthesizers ==
    Flatten([i \in DOMAIN call_log |->
                [k \in DOMAIN call_log[i].spoken |-> call_log[i].spoken[k].dropped]])

\* A constructor that takes up the state of the synthesizer dropped last
FormantSynthesizerKept(config) ==
    IF DroppedSynthesizers = <<>>
    THEN [config |-> config, pitch_phase |-> <<0, 1>>, noise_state |-> 12345,
          resonators |-> [y1 |-> <<0, 1>>, y2 |-> <<0, 1>>], processed |-> <<>>]
    ELSE [DroppedSynthesizers[Len(DroppedSynthesizers)] EXCEPT !.config = config]

\* FormantSynthesizer::new: pitch_phase 0.0, noise_state 12345, and the four
\* resonators from Resonator::new, each with y1 = y2 = 0.0
FormantSynthesizerNew(config) ==
    [config |-> config, pitch_phase |-> <<0, 1>>, noise_state |-> 12345,
     resonators |-> [y1 |-> <<0, 1>>, y2 |-> <<0, 1>>], processed |-> <<>>]

\* synthesize_phonemes and to_pcm16 on the local formant_synth: the state
\* the samples were produced from, the samples, and the synthesizer as it is
\* when the caller drops it
Spoken(formant_synth, phonemes, inventory) ==
    [from |-> formant_synth,
     samples |-> ToPcm16(SynthesizePhonemes(formant_synth.config, phonemes, inventory)),
     dropped |-> [formant_synth EXCEPT
                     !.processed = SynthesizePhonemes(formant_synth.config, phonemes,
                                                      inventory)]]

\* Synthesizer::synthesize: what its formant synthesizer speaks
SynthesizeSpoken(c, t) ==
    IF Convert(GetG2P(c.language), t) = <<>> THEN <<>>
    ELSE <<Spoken(FormantSynthesizerNew(CreateFormantSynthesizer(c)),
                  Convert(GetG2P(c.language), t), GetInventory(c.language))>>

\* The body of the for loop of synthesize_with_prosody
SegmentSpoken(c, segment) ==
    IF Convert(GetG2P(c.language), segment.text) = <<>> THEN <<>>
    ELSE <<Spoken(FormantSynthesizerNew(
                      CreateFormantSynthesizerWithProsody(c, segment.prosody)),
                  Convert(GetG2P(c.language), segment.text), GetInventory(c.language))>>

\* The for loop of synthesize_with_prosody over the segments
SegmentsSpoken(c, segments) ==
    Flatten([i \in DOMAIN segments |-> SegmentSpoken(c, segments[i])])

\* Synthesizer::synthesize_with_prosody: what its formant synthesizers speak
SynthesizeWithProsodySpoken(c, t) ==
    IF Analyze(t) = <<>> THEN SynthesizeSpoken(c, t)
    ELSE SegmentsSpoken(c, Analyze(t))

\* The all_samples of a call
AllSamples(spoken) == Flatten([i \in DOMAIN spoken |-> spoken[i].samples])

\* Synthesizer::synthesize_with_prosody
SynthesizeWithProsody(c, t) ==
    AudioOutputNew(AllSamples(SynthesizeWithProsodySpoken(c, t)), SAMPLE_RATE, 1)

\* The segments of synthesize_segments that reach synthesize_phonemes
SpeakingSegments(segments) ==
    SelectSeq(segments,
              LAMBDA segment :
                  /\ ~(StartsWith(segment.text, <<"_", "_", "b", "r", "e", "a", "k", "_">>) /\ EndsWith(segment.text, <<"_", "_">>))
                  /\ Trim(segment.text) # <<>>)

\* Synthesizer::synthesize_ssml: what its formant synthesizers speak
SynthesizeSsmlSpoken(c, input) ==
    IF SynthesizeSsml(c, input).kind # "Ok" THEN <<>>
    ELSE SegmentsSpoken(c, SpeakingSegments(ToSynthesisSegments(SsmlParserParse(input).value)))

\* ------------------------------------------------------------------------
\* Two engines: Synthesizer::new() twice, then set_language, synthesize,
\* synthesize_with_prosody and synthesize_ssml on either, in any order.
\* call_log keeps each call with the config it ran under and what it
\* returned.
\* ------------------------------------------------------------------------

MaxCalls == 3

EngineIds == {1, 2}

EngineTexts == {<<"b", "o", "x">>, <<"n", "o">>}

EngineQuestion == <<"S", "o", "?", " ", "n", "o", "!">>

EngineDocument == <<"<", "s", ">", "n", "o", "<", "/", "s", ">", "l", "a">>

InitEngines ==
    /\ engines = [e \in EngineIds |-> [valid |-> TRUE, config |-> VoiceConfigNew("English")]]
    /\ call_log = <<>>
    /\ voice_builder = NoBuilder
    /\ synth = NoSynth
    /\ last_call = NoCall
    /\ streamer = NoStreamer
    /\ text = NoText
    /\ stream = NoStream
    /\ chunks = <<>>
    /\ audio = NoAudio
    /\ ssml = NoSsml
    /\ g2p = NoG2P

UnchangedButEngines ==
    UNCHANGED <<voice_builder, synth, last_call, streamer, text, stream, chunks, audio,
                ssml, g2p>>

Logged(e, op, t, returned, spoken) ==
    /\ Len(call_log) < MaxCalls
    /\ call_log' = Append(call_log, [engine |-> e, op |-> op, config |-> engines[e].config,
                                     text |-> t, returned |-> returned, spoken |-> spoken])
    /\ UNCHANGED engines
    /\ UnchangedButEngines

EngineSetLanguage(e, l) ==
    /\ engines' = [engines EXCEPT ![e].config = SetLanguage(@, l)]
    /\ UNCHANGED call_log
    /\ UnchangedButEngines

EngineSynthesize(e, t) ==
    Logged(e, "synthesize", t,
           AudioOutputNew(AllSamples(SynthesizeSpoken(engines[e].config, t)), SAMPLE_RATE, 1),
           SynthesizeSpoken(engines[e].config, t))

EngineSynthesizeWithProsody(e, t) ==
    Logged(e, "synthesize_with_prosody", t, SynthesizeWithProsody(engines[e].config, t),
           SynthesizeWithProsodySpoken(engines[e].config, t))

EngineSynthesizeSsml(e, input) ==
    Logged(e, "synthesize_ssml", input, SynthesizeSsml(engines[e].config, input).audio,
           SynthesizeSsmlSpoken(engines[e].config, input))

NextEngines ==
    \/ \E e \in EngineIds, l \in Languages : EngineSetLanguage(e, l)
    \/ \E e \in EngineIds, t \in EngineTexts : EngineSynthesize(e, t)
    \/ \E e \in EngineIds : EngineSynthesizeWithProsody(e, EngineQuestion)
    \/ \E e \in EngineIds : EngineSynthesizeSsml(e, EngineDocument)

SpecEngines == InitEngines /\ [][NextEngines]_vars

SynthesizeCalls == {i \in DOMAIN call_log : call_log[i].op = "synthesize"}

EspeakCallCodes == {<<"e", "n">>, <<"e", "s">>, <<"x", "x">>}

EspeakCallText == <<"h", "o", "l", "a">>

InitEspeakCalls ==
    /\ call_log = <<>>
    /\ last_call = NoEspeakCall
    /\ voice_builder = NoBuilder
    /\ synth = NoSynth
    /\ streamer = NoStreamer
    /\ text = NoText
    /\ stream = NoStream
    /\ chunks = <<>>
    /\ audio = NoAudio
    /\ ssml = NoSsml
    /\ engines = NoEngines
    /\ g2p = NoG2P

EspeakLogged(op, code, t, ipa, result) ==
    /\ Len(call_log) < MaxCalls
    /\ call_log' = Append(call_log, [op |-> op, code |-> code, text |-> t, ipa |-> ipa,
                                     result |-> result])
    /\ UNCHANGED <<voice_builder, synth, last_call, streamer, text, stream, chunks, audio,
                   ssml, engines, g2p>>

LogEspeakInitialize == EspeakLogged("espeak_initialize", <<>>, <<>>, FALSE, EspeakInitialize)

LogEspeakSetVoiceByName(code) ==
    EspeakLogged("espeak_set_voice_by_name", code, <<>>, FALSE, EspeakSetVoiceByName(code))

LogEspeakSynth(t, code) == EspeakLogged("espeak_synth", code, t, FALSE, EspeakSynth(t, code))

LogEspeakTextToPhonemes(t, code, ipa) ==
    EspeakLogged("espeak_text_to_phonemes", code, t, ipa, EspeakTextToPhonemes(t, code, ipa))

\* espeak_terminate returns nothing
LogEspeakTerminate == EspeakLogged("espeak_terminate", <<>>, <<>>, FALSE, Ok(<<>>))

NextEspeakCalls ==
    \/ LogEspeakInitialize
    \/ \E code \in EspeakCallCodes : LogEspeakSetVoiceByName(code)
    \/ \E code \in EspeakCallCodes : LogEspeakSynth(EspeakCallText, code)
    \/ \E code \in EspeakCallCodes, ipa \in BOOLEAN :
          LogEspeakTextToPhonemes(EspeakCallText, code, ipa)
    \/ LogEspeakTerminate

SpecEspeakCalls == InitEspeakCalls /\ [][NextEspeakCalls]_vars

RuleListOf(language) == IF language = "en" THEN EnglishRuleList ELSE SpanishRuleList

\* G2PConverter::add_rule: self.rules.entry(key).or_default().push(rule),
\* then the bucket sorted
AddRuleTo(rules, rule) ==
    [key \in DOMAIN rules \cup {RuleKey(rule)} |->
        IF key = RuleKey(rule)
        THEN AddRule(IF key \in DOMAIN rules THEN rules[key] ELSE <<>>, rule)
        ELSE rules[key]]

\* Texts given to convert
G2PTexts ==
    { <<"t", "h", "e">>, <<"T", "h", "e">>, <<"t", "h", "e", ",">>, <<"T", "H", "E", " ", "t", "h", "e">>, <<"h", "e", "l", "l", "o">>, <<"H", "E", "L", "L", "O", "!">>, <<"t", "h", "3", "e">>, <<"d", "o", "n", "'", "t">>, <<"x", "-", "'">>,
      <<"t", "h", "e", " ", "c", "a", "t">>, <<" ", "t", "h", "e", " ", " ", "c", "a", "t", " ">>, <<"a", " ", "e", " ", "a">>, <<"e">>, <<"a", " ", "1", " ", "a">>, <<"g", "h", " ", "1", "2", " ", "a">>, <<"h", "e", "l", "l", "o", " ", "w", "o", "r", "l", "d">>,
      <<>>, <<" ", " ", " ">>, <<"1", "2", "3">>, <<"1", "2", " ", "?", "!">>, <<"-", " ", "'">>, <<"h", "o", "l", "a">>, <<"e", "l", " ", "n", "i", "ntilde", "o">>, <<"h">>, <<"b", "o", "x">> }

NoG2PCall == [op |-> "none", text |-> <<>>, result |-> <<>>]

InitG2P ==
    /\ \E language \in {"en", "es"} :
          g2p = [valid |-> TRUE, language |-> language,
                 inventory |-> IF language = "en" THEN InventoryEnglish
                               ELSE InventorySpanish,
                 rules |-> EmptyMap, exceptions |-> <<>>, added |-> 0,
                 constructed |-> FALSE]
    /\ last_call = NoG2PCall
    /\ voice_builder = NoBuilder
    /\ synth = NoSynth
    /\ streamer = NoStreamer
    /\ text = NoText
    /\ stream = NoStream
    /\ chunks = <<>>
    /\ audio = NoAudio
    /\ ssml = NoSsml
    /\ engines = NoEngines
    /\ call_log = NoCalls

UnchangedButG2P ==
    UNCHANGED <<voice_builder, synth, streamer, text, stream, chunks, audio, ssml,
                engines, call_log>>

\* The next add_rule call of the constructor
G2PAddRule ==
    /\ g2p.valid /\ ~g2p.constructed
    /\ g2p.added < Len(RuleListOf(g2p.language))
    /\ g2p' = [g2p EXCEPT !.rules = AddRuleTo(@, RuleListOf(g2p.language)[g2p.added + 1]),
                          !.added = @ + 1]
    /\ last_call' = [op |-> "add_rule", text |-> <<>>, result |-> <<>>]
    /\ UnchangedButG2P

\* The rest of the constructor after the last add_rule: english() calls
\* load_english_exceptions; the converter is returned
G2PConstructed ==
    /\ g2p.valid /\ ~g2p.constructed
    /\ g2p.added = Len(RuleListOf(g2p.language))
    /\ g2p' = [g2p EXCEPT !.exceptions = IF g2p.language = "en" THEN EnglishExceptions
                                         ELSE <<>>,
                          !.constructed = TRUE]
    /\ last_call' = [op |-> "constructed", text |-> <<>>, result |-> <<>>]
    /\ UnchangedButG2P

\* G2PConverter::convert(&self, text)
G2PConvert(t) ==
    /\ g2p.valid /\ g2p.constructed
    /\ last_call' = [op |-> "convert", text |-> t, result |-> Convert(g2p, t)]
    /\ UNCHANGED g2p
    /\ UnchangedButG2P

NextG2P ==
    \/ G2PAddRule
    \/ G2PConstructed
    \/ \E t \in G2PTexts : G2PConvert(t)

SpecG2P == InitG2P /\ [][NextG2P]_vars

\* A bucket in the order of add_rule's comparator: priority descending and,
\* among equal priorities, pattern length (str::len) descending
BucketOrdered(bucket) ==
    \A i \in DOMAIN bucket, j \in DOMAIN bucket :
        i < j => \/ bucket[i].priority > bucket[j].priority
                 \/ /\ bucket[i].priority = bucket[j].priority
                    /\ ByteLen(bucket[i].pattern) >= ByteLen(bucket[j].pattern)

\* C13: after every add_rule call of a constructor, and so in the complete
\* English and Spanish tables and after every convert, each first-character
\* bucket is ordered by priority descending and, among equal priorities, by
\* pattern length descending; the first rule of a bucket has the bucket's
\* maximum priority; the constructed tables are those the synthesizers use.
C13_BucketsOrdered ==
    g2p.valid =>
        /\ \A key \in DOMAIN g2p.rules :
              /\ g2p.rules[key] # <<>>
              /\ BucketOrdered(g2p.rules[key])
              /\ \A k \in DOMAIN g2p.rules[key] :
                    g2p.rules[key][1].priority >= g2p.rules[key][k].priority
        /\ g2p.constructed =>
              g2p.rules = (IF g2p.language = "en" THEN G2PEnglish ELSE G2PSpanish).rules

\* C13 witness: the English constructor has returned, a convert call has
\* been made, and the bucket of "o" holds its seven rules with "oo", added
\* third, in front, "ow" (priority 10, two bytes) before the "o" of
\* priority 10 that was added first, and the "o" of priority 1 at the back.
C13_Witness ==
    /\ g2p.valid /\ g2p.constructed /\ g2p.language = "en"
    /\ last_call.op = "convert" /\ last_call.result # <<>>
    /\ Len(g2p.rules["o"]) = 7
    /\ g2p.rules["o"][1].pattern = <<"o", "o">>
    /\ g2p.rules["o"][5].pattern = <<"o", "w">>
    /\ g2p.rules["o"][6].pattern = <<"o">> /\ g2p.rules["o"][6].priority = 10
    /\ g2p.rules["o"][7].priority = 1

\* ------------------------------------------------------------------------
\* Properties of G2PConverter::convert
\* ------------------------------------------------------------------------

\* The words of a text: its maximal runs of non-whitespace characters
InputWords(t) == SplitWhitespace(t)

\* A word lowercased, its letters, apostrophes and hyphens kept
FilteredForm(w) ==
    SelectSeq(ToLowercase(w), LAMBDA c : IsAlphabetic(c) \/ c = "'" \/ c = "-")

\* What a word is to contribute: the stored phonemes when its filtered form
\* is a key of the exception lexicon, else what the rules give
ExpectedPhonemes(g, w) ==
    IF FilteredForm(w) \in DOMAIN EnglishExceptions
    THEN EnglishExceptions[FilteredForm(w)]
    ELSE ConvertWordFrom(g, FilteredForm(w), 0)

\* C14: the English converter emits, for every word of the text whose
\* lowercased, filtered form is a key of the exception lexicon, exactly the
\* stored phonemes, whatever the word's letter case and adjacent
\* punctuation: "the", "The" and "the," give D @, "hello" gives h E l o.
C14_ExceptionWords ==
    (g2p.valid /\ g2p.language = "en" /\ last_call.op = "convert") =>
        /\ last_call.result =
              JoinWords(SelectSeq([i \in DOMAIN InputWords(last_call.text) |->
                                      ExpectedPhonemes(g2p, InputWords(last_call.text)[i])],
                                  LAMBDA p : p # <<>>))
        /\ last_call.text \in {<<"t", "h", "e">>, <<"T", "h", "e">>, <<"t", "h", "e", ",">>} => last_call.result = <<"D", "@">>
        /\ last_call.text = <<"h", "e", "l", "l", "o">> => last_call.result = <<"h", "E", "l", "o">>

\* C14 witness: convert("HELLO!") returned h E l o, and convert("THE the")
\* returned D @ _ D @.
C14_Witness ==
    /\ g2p.valid /\ g2p.language = "en" /\ last_call.op = "convert"
    /\ \/ last_call.text = <<"H", "E", "L", "L", "O", "!">> /\ last_call.result = <<"h", "E", "l", "o">>
       \/ last_call.text = <<"T", "H", "E", " ", "t", "h", "e">> /\ last_call.result = <<"D", "@", "_", "D", "@">>

\* The words of a text for which convert_word gives at least one phoneme
ProducingWords(g, t) ==
    {i \in DOMAIN InputWords(t) : ConvertWord(g, FilteredForm(InputWords(t)[i])) # <<>>}

\* C15: in the output of convert the token "_" stands only between the
\* phonemes of two consecutive words: the output neither starts nor ends
\* with "_", has no two adjacent "_", and has one "_" less than there are
\* input words that produce a phoneme (none when there is no such word); a
\* text without letters gives the empty output.
C15_SeparatorsBetweenWords ==
    (g2p.valid /\ last_call.op = "convert") =>
        LET r == last_call.result
            producing == Cardinality(ProducingWords(g2p, last_call.text))
        IN /\ r # <<>> => (r[1] # "_" /\ r[Len(r)] # "_")
           /\ \A i \in 1 .. Len(r) - 1 : ~(r[i] = "_" /\ r[i + 1] = "_")
           /\ Cardinality({i \in DOMAIN r : r[i] = "_"}) =
                 IF producing = 0 THEN 0 ELSE producing - 1
           /\ (\A i \in DOMAIN last_call.text : ~IsAlphabetic(last_call.text[i])) =>
                 r = <<>>

\* C15 witness: convert("a e a") in English, where the word "e" produces no
\* phoneme, returned @ _ @.
C15_Witness ==
    /\ g2p.valid /\ g2p.language = "en" /\ last_call.op = "convert"
    /\ last_call.text = <<"a", " ", "e", " ", "a">>
    /\ last_call.result = <<"@", "_", "@">>

\* ------------------------------------------------------------------------
\* SSML documents: a Synthesizer, and SsmlParser::parse,
\* SsmlDocument::to_synthesis_segments and Synthesizer::synthesize_ssml on
\* well-formed documents with breaks, nested prosody and emphasis.  ssml
\* holds the document that was parsed, then its segments, or the result of
\* synthesize_ssml, until the caller has taken it.
\* ------------------------------------------------------------------------

\* Documents that are parsed, flattened and spoken.  Their rates are powers
\* of two and 5/4, where the f32 sample counts are the exact ones.
SpokenDocuments ==
    { <<"<", "s", "p", "e", "a", "k", ">", "a", "<", "b", "r", "e", "a", "k", " ", "t", "i", "m", "e", "=", "\"", "5", "0", "0", "m", "s", "\"", "/", ">", "a", "<", "/", "s", "p", "e", "a", "k", ">">>,
      <<"<", "s", "p", "e", "a", "k", ">", "h", "o", "l", "a", "<", "b", "r", "e", "a", "k", " ", "t", "i", "m", "e", "=", "\"", "2", "s", "\"", "/", ">", "a", "<", "/", "s", "p", "e", "a", "k", ">">>,
      <<"<", "b", "r", "e", "a", "k", "/", ">">>,
      <<"a", "<", "b", "r", "e", "a", "k", " ", "s", "t", "r", "e", "n", "g", "t", "h", "=", "\"", "s", "t", "r", "o", "n", "g", "\"", "/", ">">>,
      <<"<", "b", "r", "e", "a", "k", " ", "t", "i", "m", "e", "=", "\"", "0", "m", "s", "\"", " ", "s", "t", "r", "e", "n", "g", "t", "h", "=", "\"", "x", "-", "w", "e", "a", "k", "\"", "/", ">", "a">>,
      <<"a", "<", "b", "r", "e", "a", "k", " ", "s", "t", "r", "e", "n", "g", "t", "h", "=", "\"", "n", "o", "n", "e", "\"", "/", ">", "a">>,
      <<"<", "s", "p", "e", "a", "k", ">", "a", "<", "b", "r", "e", "a", "k", " ", "t", "i", "m", "e", "=", "\"", "2", "5", "0", "m", "s", "\"", "/", ">", "<", "b", "r", "e", "a", "k", " ", "t", "i", "m", "e", "=", "\"", "5", "m", "s", "\"", "/", ">", "a", "<", "/", "s", "p", "e", "a", "k", ">">>,
      <<"<", "s", "p", "e", "a", "k", ">", "a", "<", "b", "r", "e", "a", "k", " ", "t", "i", "m", "e", "=", "\"", "1", "0", "6", "0", "m", "s", "\"", "/", ">", "a", "<", "/", "s", "p", "e", "a", "k", ">">>,
      <<"<", "p", "r", "o", "s", "o", "d", "y", " ", "r", "a", "t", "e", "=", "\"", "f", "a", "s", "t", "\"", " ", "v", "o", "l", "u", "m", "e", "=", "\"", "l", "o", "u", "d", "\"", ">", "a", "<", "b", "r", "e", "a", "k", " ", "t", "i", "m", "e", "=", "\"", "1", "s", "\"", "/", ">", "a", "<", "/", "p", "r", "o", "s", "o", "d", "y", ">">>,
      <<"<", "p", ">", "<", "s", ">", "a", "<", "/", "s", ">", "<", "b", "r", "e", "a", "k", " ", "t", "i", "m", "e", "=", "\"", "1", "0", "0", "m", "s", "\"", "/", ">", "<", "s", ">", "a", "<", "/", "s", ">", "<", "/", "p", ">">>,
      <<"<", "e", "m", "p", "h", "a", "s", "i", "s", " ", "l", "e", "v", "e", "l", "=", "\"", "s", "t", "r", "o", "n", "g", "\"", ">", "a", "<", "b", "r", "e", "a", "k", " ", "t", "i", "m", "e", "=", "\"", "2", "0", "0", "m", "s", "\"", "/", ">", "<", "/", "e", "m", "p", "h", "a", "s", "i", "s", ">">>,
      <<"<", "p", "r", "o", "s", "o", "d", "y", " ", "r", "a", "t", "e", "=", "\"", "2", "0", "0", "%", "\"", ">", "<", "p", "r", "o", "s", "o", "d", "y", " ", "p", "i", "t", "c", "h", "=", "\"", "l", "o", "w", "\"", ">", "<", "b", "r", "e", "a", "k", " ", "t", "i", "m", "e", "=", "\"", "1", "5", "0", "0", "m", "s", "\"", " ", "s", "t", "r", "e", "n", "g", "t", "h", "=", "\"", "w", "e", "a", "k", "\"", "/", ">", "a", "<", "/", "p", "r", "o", "s", "o", "d", "y", ">", "<", "/", "p", "r", "o", "s", "o", "d", "y", ">">>,
      <<"<", "p", "r", "o", "s", "o", "d", "y", " ", "r", "a", "t", "e", "=", "\"", "f", "a", "s", "t", "\"", " ", "p", "i", "t", "c", "h", "=", "\"", "h", "i", "g", "h", "\"", ">", "a", "<", "/", "p", "r", "o", "s", "o", "d", "y", ">">>,
      <<"<", "p", "r", "o", "s", "o", "d", "y", " ", "r", "a", "t", "e", "=", "\"", "2", "0", "0", "%", "\"", ">", "<", "p", "r", "o", "s", "o", "d", "y", " ", "r", "a", "t", "e", "=", "\"", "5", "0", "%", "\"", ">", "a", "<", "/", "p", "r", "o", "s", "o", "d", "y", ">", "a", "<", "/", "p", "r", "o", "s", "o", "d", "y", ">">>,
      <<"<", "s", "p", "e", "a", "k", ">", "<", "v", "o", "i", "c", "e", " ", "n", "a", "m", "e", "=", "\"", "e", "n", "\"", ">", "<", "p", "r", "o", "s", "o", "d", "y", " ", "v", "o", "l", "u", "m", "e", "=", "\"", "s", "o", "f", "t", "\"", ">", "a", "<", "/", "p", "r", "o", "s", "o", "d", "y", ">", "<", "/", "v", "o", "i", "c", "e", ">", "<", "/", "s", "p", "e", "a", "k", ">">> }

\* Documents that are parsed and flattened only
FlattenedDocuments ==
    { <<"<", "p", "r", "o", "s", "o", "d", "y", " ", "r", "a", "t", "e", "=", "\"", "s", "l", "o", "w", "\"", ">", "a", "<", "p", "r", "o", "s", "o", "d", "y", " ", "p", "i", "t", "c", "h", "=", "\"", "x", "-", "h", "i", "g", "h", "\"", ">", "a", "<", "p", "r", "o", "s", "o", "d", "y", " ", "v", "o", "l", "u", "m", "e", "=", "\"", "s", "o", "f", "t", "\"", ">", "a", "<", "/", "p", "r", "o", "s", "o", "d", "y", ">", "<", "/", "p", "r", "o", "s", "o", "d", "y", ">", "a", "<", "/", "p", "r", "o", "s", "o", "d", "y", ">">>,
      <<"<", "p", "r", "o", "s", "o", "d", "y", " ", "c", "o", "n", "t", "o", "u", "r", "=", "\"", "(", "0", "%", ",", "+", "0", "%", ")", " ", "(", "1", "0", "0", "%", ",", "+", "5", "0", "%", ")", "\"", ">", "a", "<", "p", "r", "o", "s", "o", "d", "y", " ", "r", "a", "t", "e", "=", "\"", "f", "a", "s", "t", "\"", ">", "a", "<", "/", "p", "r", "o", "s", "o", "d", "y", ">", "<", "/", "p", "r", "o", "s", "o", "d", "y", ">">>,
      <<"<", "p", "r", "o", "s", "o", "d", "y", " ", "c", "o", "n", "t", "o", "u", "r", "=", "\"", "(", "0", "%", ",", "+", "0", "%", ")", " ", "(", "1", "0", "0", "%", ",", "-", "2", "0", "%", ")", "\"", ">", "<", "p", ">", "a", "<", "p", "r", "o", "s", "o", "d", "y", " ", "c", "o", "n", "t", "o", "u", "r", "=", "\"", "(", "0", "%", ",", "+", "0", "%", ")", " ", "(", "1", "0", "0", "%", ",", "+", "5", "0", "%", ")", "\"", ">", "a", "<", "/", "p", "r", "o", "s", "o", "d", "y", ">", "<", "/", "p", ">", "<", "s", ">", "a", "<", "/", "s", ">", "<", "/", "p", "r", "o", "s", "o", "d", "y", ">">>,
      <<"<", "p", "r", "o", "s", "o", "d", "y", " ", "c", "o", "n", "t", "o", "u", "r", "=", "\"", "(", "0", "%", ",", "+", "0", "%", ")", " ", "(", "1", "0", "0", "%", ",", "+", "5", "0", "%", ")", "\"", ">", "<", "p", "r", "o", "s", "o", "d", "y", " ", "c", "o", "n", "t", "o", "u", "r", "=", "\"", "(", "5", "0", "%", ",", "+", "0", "%", ")", "\"", ">", "a", "<", "/", "p", "r", "o", "s", "o", "d", "y", ">", "<", "/", "p", "r", "o", "s", "o", "d", "y", ">">>,
      <<"<", "p", "r", "o", "s", "o", "d", "y", " ", "p", "i", "t", "c", "h", "=", "\"", "+", "1", "2", "s", "t", "\"", " ", "r", "a", "t", "e", "=", "\"", "x", "-", "f", "a", "s", "t", "\"", ">", "<", "p", "r", "o", "s", "o", "d", "y", " ", "p", "i", "t", "c", "h", "=", "\"", "-", "1", "2", "s", "t", "\"", " ", "v", "o", "l", "u", "m", "e", "=", "\"", "x", "-", "l", "o", "u", "d", "\"", ">", "a", "<", "/", "p", "r", "o", "s", "o", "d", "y", ">", "<", "/", "p", "r", "o", "s", "o", "d", "y", ">">>,
      <<"<", "e", "m", "p", "h", "a", "s", "i", "s", " ", "l", "e", "v", "e", "l", "=", "\"", "s", "t", "r", "o", "n", "g", "\"", ">", "<", "p", "r", "o", "s", "o", "d", "y", " ", "r", "a", "t", "e", "=", "\"", "f", "a", "s", "t", "\"", ">", "a", "<", "/", "p", "r", "o", "s", "o", "d", "y", ">", "a", "<", "/", "e", "m", "p", "h", "a", "s", "i", "s", ">">>,
      <<"<", "p", "r", "o", "s", "o", "d", "y", " ", "v", "o", "l", "u", "m", "e", "=", "\"", "x", "-", "l", "o", "u", "d", "\"", ">", "<", "e", "m", "p", "h", "a", "s", "i", "s", " ", "l", "e", "v", "e", "l", "=", "\"", "s", "t", "r", "o", "n", "g", "\"", ">", "a", "<", "/", "e", "m", "p", "h", "a", "s", "i", "s", ">", "<", "/", "p", "r", "o", "s", "o", "d", "y", ">">>,
      <<"<", "e", "m", "p", "h", "a", "s", "i", "s", " ", "l", "e", "v", "e", "l", "=", "\"", "s", "t", "r", "o", "n", "g", "\"", ">", "<", "e", "m", "p", "h", "a", "s", "i", "s", " ", "l", "e", "v", "e", "l", "=", "\"", "r", "e", "d", "u", "c", "e", "d", "\"", ">", "a", "<", "/", "e", "m", "p", "h", "a", "s", "i", "s", ">", "<", "/", "e", "m", "p", "h", "a", "s", "i", "s", ">">>,
      <<"<", "p", "r", "o", "s", "o", "d", "y", " ", "r", "a", "t", "e", "=", "\"", "2", "0", "0", "%", "\"", ">", "<", "p", "r", "o", "s", "o", "d", "y", " ", "r", "a", "t", "e", "=", "\"", "2", "0", "0", "%", "\"", ">", "<", "p", "r", "o", "s", "o", "d", "y", " ", "r", "a", "t", "e", "=", "\"", "2", "0", "0", "%", "\"", ">", "a", "<", "/", "p", "r", "o", "s", "o", "d", "y", ">", "<", "/", "p", "r", "o", "s", "o", "d", "y", ">", "<", "/", "p", "r", "o", "s", "o", "d", "y", ">">>,
      <<"<", "p", "r", "o", "s", "o", "d", "y", " ", "r", "a", "t", "e", "=", "\"", "x", "-", "s", "l", "o", "w", "\"", ">", "<", "p", "r", "o", "s", "o", "d", "y", " ", "r", "a", "t", "e", "=", "\"", "x", "-", "s", "l", "o", "w", "\"", ">", "<", "p", "r", "o", "s", "o", "d", "y", " ", "r", "a", "t", "e", "=", "\"", "x", "-", "s", "l", "o", "w", "\"", ">", "a", "<", "/", "p", "r", "o", "s", "o", "d", "y", ">", "<", "/", "p", "r", "o", "s", "o", "d", "y", ">", "<", "/", "p", "r", "o", "s", "o", "d", "y", ">">>,
      <<"<", "p", "r", "o", "s", "o", "d", "y", " ", "r", "a", "t", "e", "=", "\"", "1", "0", "\"", ">", "a", "<", "/", "p", "r", "o", "s", "o", "d", "y", ">">>,
      <<"<", "p", "r", "o", "s", "o", "d", "y", " ", "r", "a", "t", "e", "=", "\"", "0", "\"", ">", "a", "<", "/", "p", "r", "o", "s", "o", "d", "y", ">">>,
      <<"<", "p", "r", "o", "s", "o", "d", "y", " ", "p", "i", "t", "c", "h", "=", "\"", "3", "0", "0", "%", "\"", ">", "a", "<", "/", "p", "r", "o", "s", "o", "d", "y", ">">>,
      <<"<", "p", "r", "o", "s", "o", "d", "y", " ", "p", "i", "t", "c", "h", "=", "\"", "x", "-", "l", "o", "w", "\"", ">", "<", "p", "r", "o", "s", "o", "d", "y", " ", "p", "i", "t", "c", "h", "=", "\"", "x", "-", "l", "o", "w", "\"", ">", "a", "<", "/", "p", "r", "o", "s", "o", "d", "y", ">", "<", "/", "p", "r", "o", "s", "o", "d", "y", ">">>,
      <<"<", "p", "r", "o", "s", "o", "d", "y", " ", "v", "o", "l", "u", "m", "e", "=", "\"", "+", "2", "0", "d", "B", "\"", ">", "a", "<", "/", "p", "r", "o", "s", "o", "d", "y", ">">>,
      <<"<", "p", "r", "o", "s", "o", "d", "y", " ", "v", "o", "l", "u", "m", "e", "=", "\"", "-", "1", "\"", ">", "a", "<", "/", "p", "r", "o", "s", "o", "d", "y", ">">>,
      <<"<", "p", "r", "o", "s", "o", "d", "y", " ", "r", "a", "t", "e", "=", "\"", "f", "a", "s", "t", "\"", ">", "<", "s", "u", "b", " ", "a", "l", "i", "a", "s", "=", "\"", "a", "\"", ">", "x", "<", "/", "s", "u", "b", ">", "<", "s", "a", "y", "-", "a", "s", " ", "i", "n", "t", "e", "r", "p", "r", "e", "t", "-", "a", "s", "=", "\"", "c", "h", "a", "r", "a", "c", "t", "e", "r", "s", "\"", ">", "a", "<", "/", "s", "a", "y", "-", "a", "s", ">", "<", "/", "p", "r", "o", "s", "o", "d", "y", ">">>,
      <<"<", "p", "r", "o", "s", "o", "d", "y", " ", "r", "a", "t", "e", "=", "\"", "f", "a", "s", "t", "\"", ">", " ", "<", "/", "p", "r", "o", "s", "o", "d", "y", ">">> }

SsmlDocuments == SpokenDocuments \cup FlattenedDocuments

\* Voice rates (words per minute) of the Synthesizer
DocumentRates == {175, 350}

\* Synthesizer::new()
InitDocuments ==
    /\ synth = [valid |-> TRUE, config |-> VoiceConfigNew("English")]
    /\ last_call = [op |-> "new", arg |-> 0, before |-> VoiceConfigNew("English")]
    /\ voice_builder = NoBuilder
    /\ streamer = NoStreamer
    /\ text = NoText
    /\ stream = NoStream
    /\ chunks = <<>>
    /\ audio = NoAudio
    /\ ssml = NoSsml
    /\ engines = NoEngines
    /\ call_log = NoCalls
    /\ g2p = NoG2P

UnchangedButDocument ==
    UNCHANGED <<voice_builder, last_call, streamer, text, stream, chunks, audio,
                engines, call_log, g2p>>

\* SsmlParser::parse(input)
DocumentParse(input) ==
    /\ ssml.phase = "idle"
    /\ ssml' = [phase |-> "parsed", op |-> "parse", input |-> input,
                result |-> ParseResult(SsmlParserParse(input))]
    /\ UNCHANGED synth
    /\ UnchangedButDocument

\* doc.to_synthesis_segments() on the document that was parsed
DocumentToSynthesisSegments ==
    /\ ssml.phase = "parsed"
    /\ ssml.result.kind = "Ok"
    /\ ssml' = [phase |-> "flattened", op |-> "to_synthesis_segments",
                input |-> ssml.input, elements |-> ssml.result.elements,
                segments |-> ToSynthesisSegments(ssml.result.elements)]
    /\ UNCHANGED synth
    /\ UnchangedButDocument

\* synth.synthesize_ssml(input)
DocumentSynthesizeSsml(input) ==
    /\ synth.valid
    /\ ssml.phase = "idle"
    /\ ssml' = [phase |-> "done", op |-> "synthesize_ssml", input |-> input,
                result |-> SynthesizeSsml(synth.config, input)]
    /\ UNCHANGED synth
    /\ UnchangedButDocument

\* The caller takes the result
DocumentReturn ==
    /\ ssml.phase # "idle"
    /\ ssml' = NoSsml
    /\ UNCHANGED synth
    /\ UnchangedButDocument

\* synth.set_rate(r) between calls
DocumentSetRate(r) ==
    /\ synth.valid
    /\ ssml.phase = "idle"
    /\ synth' = [synth EXCEPT !.config = SetRate(@, r)]
    /\ UNCHANGED ssml
    /\ UnchangedButDocument

\* synth.set_language(l) between calls
DocumentSetLanguage(l) ==
    /\ synth.valid
    /\ ssml.phase = "idle"
    /\ synth' = [synth EXCEPT !.config = SetLanguage(@, l)]
    /\ UNCHANGED ssml
    /\ UnchangedButDocument

NextDocuments ==
    \/ \E input \in SsmlDocuments : DocumentParse(input)
    \/ DocumentToSynthesisSegments
    \/ \E input \in SpokenDocuments : DocumentSynthesizeSsml(input)
    \/ DocumentReturn
    \/ \E r \in DocumentRates : DocumentSetRate(r)
    \/ \E l \in Languages : DocumentSetLanguage(l)

SpecDocuments == InitDocuments /\ [][NextDocuments]_vars

\* ------------------------------------------------------------------------
\* C16
\* ------------------------------------------------------------------------

RECURSIVE BreakDurations(_)

\* The durations in ms of the Break elements of a document, in document
\* order: the time attribute when it is positive, the strength otherwise
BreakDurationsOf(element) ==
    IF element.kind = "Break"
    THEN <<IF element.spec.time_ms > 0 THEN element.spec.time_ms
           ELSE BreakStrengthToMs(element.spec.strength)>>
    ELSE IF element.kind \in {"Prosody", "Emphasis", "Voice", "Paragraph", "Sentence"}
    THEN BreakDurations(element.children)
    ELSE <<>>

BreakDurations(elements) ==
    Flatten([i \in DOMAIN elements |-> BreakDurationsOf(elements[i])])

\* __break_<D>__
BreakText(duration) == <<"_", "_", "b", "r", "e", "a", "k", "_">> \o ToDecimal(duration) \o <<"_", "_">>

\* The segments of a document that are not text segments (no text of
\* SsmlDocuments starts with two underscores)
MarkerSegments(segments) ==
    SelectSeq(segments, LAMBDA s : StartsWith(s.text, <<"_", "_">>))

\* One segment per Break element, in document order, with the given prosody
BreakSegmentsAre(prosody) ==
    ssml.phase = "flattened" =>
        MarkerSegments(ssml.segments) =
            [i \in DOMAIN BreakDurations(ssml.elements) |->
                [text |-> BreakText(BreakDurations(ssml.elements)[i]),
                 prosody |-> prosody]]

\* C16 as stated: for every Break element of duration D ms,
\* to_synthesis_segments emits exactly one segment with the text
\* __break_<D>__ and the default ProsodyConfig
C16_BreakSegmentDefaultProsody == BreakSegmentsAre(ProsodyConfigDefault)

\* C16, amended: for every Break element of duration D ms (its time when
\* positive, its strength otherwise), to_synthesis_segments emits exactly one
\* segment with the text __break_<D>__, and its prosody is the default
\* ProsodyConfig with volume_multiplier 0.0
C16_BreakSegmentSilentProsody ==
    BreakSegmentsAre([ProsodyConfigDefault EXCEPT !.volume_multiplier = <<0, 1>>])

\* A document with a 1500 ms break inside two prosody elements has been
\* flattened to the marker and the text
C16_Witness ==
    /\ ssml.phase = "flattened"
    /\ BreakDurations(ssml.elements) = <<1500>>
    /\ Len(ssml.segments) = 2
    /\ ssml.segments[1].text = <<"_", "_", "b", "r", "e", "a", "k", "_", "1", "5", "0", "0", "_", "_">>
    /\ ssml.segments[1].prosody.volume_multiplier = <<0, 1>>
    /\ ssml.segments[2].prosody.rate_multiplier = <<2, 1>>

\* ------------------------------------------------------------------------
\* C17
\* ------------------------------------------------------------------------

\* D of the marker __break_<D>__
MarkerDuration(t) == ParseU32(SubSeq(t, 9, Len(t) - 2))[1]

\* The audio of a document whose breaks are runs of silence(D) zero samples
\* at their places between the audio of the texts
AudioWithSilences(c, segments, silence(_)) ==
    Flatten([i \in DOMAIN segments |->
                IF StartsWith(segments[i].text, <<"_", "_">>)
                THEN SilenceRun(silence(MarkerDuration(segments[i].text)))
                ELSE SynthesizeSegment(c, segments[i]).value])

\* synthesize_ssml returned the audio of the texts with silence(D) zero
\* samples for each break
BreaksAreSilences(silence(_)) ==
    (ssml.phase = "done" /\ ssml.result.kind = "Ok") =>
        ssml.result.audio.samples =
            AudioWithSilences(synth.config,
                              ToSynthesisSegments(SsmlParserParse(ssml.input).value),
                              silence)

\* D * 22050 / 1000, the fraction dropped
ExactSilenceSamples(duration_ms) == (duration_ms * SAMPLE_RATE) \div 1000

\* C17: in synthesize_ssml a break of D ms contributes exactly D*22050/1000
\* consecutive zero samples at its document position between the audio of
\* the preceding and the following text, whatever the voice rate and the
\* enclosing prosody
C17_BreakSilenceSamples == BreaksAreSilences(ExactSilenceSamples)

\* What the code does: the number of samples is the f32 product, truncated
C17_BreakSilenceF32 == BreaksAreSilences(SilenceSamples)

\* synthesize_ssml has returned for a document with a break of 1060 ms
\* between two texts: 23372 zero samples, where 1060 * 22050 / 1000 = 23373
C17_Witness ==
    /\ ssml.phase = "done"
    /\ ssml.result.kind = "Ok"
    /\ ssml.input = <<"<", "s", "p", "e", "a", "k", ">", "a", "<", "b", "r", "e", "a", "k", " ", "t", "i", "m", "e", "=", "\"", "1", "0", "6", "0", "m", "s", "\"", "/", ">", "a", "<", "/", "s", "p", "e", "a", "k", ">">>
    /\ Len(ssml.result.audio.samples) >= 3
    /\ \E i \in DOMAIN ssml.result.audio.samples :
          /\ ssml.result.audio.samples[i].sym = "silence"
          /\ ssml.result.audio.samples[i].hi - ssml.result.audio.samples[i].lo = 23372

\* ------------------------------------------------------------------------
\* C18
\* ------------------------------------------------------------------------

RECURSIVE OnlyProsodyNesting(_)

\* The elements are texts, breaks, and prosody, voice, p and s elements of
\* such elements: every ancestor that carries a prosody is a Prosody element
OnlyProsodyNesting(elements) ==
    \A i \in DOMAIN elements :
        \/ elements[i].kind \in {"Text", "Break"}
        \/ /\ elements[i].kind \in {"Prosody", "Voice", "Paragraph", "Sentence"}
           /\ OnlyProsodyNesting(elements[i].children)

RECURSIVE TextChains(_, _)

\* The texts of a document in document order, each with the configs of its
\* Prosody ancestors from the outermost to the innermost
TextChainsOf(element, chain) ==
    IF element.kind = "Text"
    THEN IF Trim(element.text) # <<>>
         THEN <<[text |-> element.text, chain |-> chain]>>
         ELSE <<>>
    ELSE IF element.kind = "Prosody"
    THEN TextChains(element.children, Append(chain, element.config))
    ELSE IF element.kind \in {"Voice", "Paragraph", "Sentence"}
    THEN TextChains(element.children, chain)
    ELSE <<>>

TextChains(elements, chain) ==
    Flatten([i \in DOMAIN elements |-> TextChainsOf(elements[i], chain)])

RECURSIVE ChainProduct(_, _)

\* The product of one multiplier over a chain
ChainProduct(chain, field) ==
    IF chain = <<>> THEN <<1, 1>>
    ELSE RatTimes(ChainProduct(SubSeq(chain, 1, Len(chain) - 1), field),
                  chain[Len(chain)][field])

\* The contour of the innermost config with a contour that is not Flat
ChainContour(chain) ==
    IF \A i \in DOMAIN chain : chain[i].contour = "Flat" THEN "Flat"
    ELSE chain[CHOOSE i \in DOMAIN chain :
                   /\ chain[i].contour # "Flat"
                   /\ \A j \in DOMAIN chain : j > i => chain[j].contour = "Flat"].contour

\* The greatest emphasis of a chain, 0 for the empty chain
ChainEmphasis(chain) ==
    IF chain = <<>> THEN <<0, 1>>
    ELSE chain[CHOOSE i \in DOMAIN chain :
                   \A j \in DOMAIN chain : RatLe(chain[j].emphasis, chain[i].emphasis)].emphasis

\* The merge along a chain
ChainMerge(chain) ==
    [pitch_multiplier |-> ChainProduct(chain, "pitch_multiplier"),
     rate_multiplier |-> ChainProduct(chain, "rate_multiplier"),
     volume_multiplier |-> ChainProduct(chain, "volume_multiplier"),
     contour |-> ChainContour(chain),
     emphasis |-> ChainEmphasis(chain)]

\* The segments that are texts
TextSegments(segments) ==
    SelectSeq(segments, LAMBDA s : ~StartsWith(s.text, <<"_", "_">>))

FastHighDocument == <<"<", "p", "r", "o", "s", "o", "d", "y", " ", "r", "a", "t", "e", "=", "\"", "f", "a", "s", "t", "\"", " ", "p", "i", "t", "c", "h", "=", "\"", "h", "i", "g", "h", "\"", ">", "a", "<", "/", "p", "r", "o", "s", "o", "d", "y", ">">>

\* C18: for every nesting of Prosody elements the prosody of a text segment
\* is the merge along its ancestor chain: the products of the rate, pitch
\* and volume multipliers, the contour of the innermost ancestor whose
\* contour is not Flat (Flat if none), the greatest emphasis; a single
\* <prosody rate="fast" pitch="high"> gives rate 1.25 and pitch 1.25
C18_ProsodyMergedAlongChain ==
    ssml.phase = "flattened" =>
        /\ OnlyProsodyNesting(ssml.elements) =>
              TextSegments(ssml.segments) =
                  [i \in DOMAIN TextChains(ssml.elements, <<>>) |->
                      [text |-> TextChains(ssml.elements, <<>>)[i].text,
                       prosody |-> ChainMerge(TextChains(ssml.elements, <<>>)[i].chain)]]
        /\ ssml.input = FastHighDocument =>
              /\ Len(ssml.segments) = 1
              /\ ssml.segments[1].prosody.rate_multiplier = <<5, 4>>
              /\ ssml.segments[1].prosody.pitch_multiplier = <<5, 4>>

\* A document with a Falling prosody around a p with a text and a Rising
\* prosody, and an s, has been flattened: the texts are Falling, Rising,
\* Falling
C18_Witness ==
    /\ ssml.phase = "flattened"
    /\ OnlyProsodyNesting(ssml.elements)
    /\ Len(ssml.segments) = 3
    /\ ssml.segments[1].prosody.contour = "Falling"
    /\ ssml.segments[2].prosody.contour = "Rising"
    /\ ssml.segments[3].prosody.contour = "Falling"
    /\ Len(TextChains(ssml.elements, <<>>)[2].chain) = 2

\* ------------------------------------------------------------------------
\* C19
\* ------------------------------------------------------------------------

\* lo <= x <= hi
RatWithin(x, lo, hi) == RatLe(lo, x) /\ RatLe(x, hi)

\* C19: every segment prosody produced by parsing and flattening a document
\* has pitch_multiplier in [0.5, 2.0], rate_multiplier in [0.25, 4.0],
\* volume_multiplier in [0.0, 2.0] and emphasis in [0.0, 1.0]
C19_SegmentProsodyInRange ==
    ssml.phase = "flattened" =>
        \A i \in DOMAIN ssml.segments :
            /\ RatWithin(ssml.segments[i].prosody.pitch_multiplier, <<1, 2>>, <<2, 1>>)
            /\ RatWithin(ssml.segments[i].prosody.rate_multiplier, <<1, 4>>, <<4, 1>>)
            /\ RatWithin(ssml.segments[i].prosody.volume_multiplier, <<0, 1>>, <<2, 1>>)
            /\ RatWithin(ssml.segments[i].prosody.emphasis, <<0, 1>>, <<1, 1>>)

\* The part of C19 that holds: the emphasis of every segment is in [0, 1]
C19_EmphasisInRange ==
    ssml.phase = "flattened" =>
        \A i \in DOMAIN ssml.segments :
            RatWithin(ssml.segments[i].prosody.emphasis, <<0, 1>>, <<1, 1>>)

\* ------------------------------------------------------------------------
\* Sentence types: calls of SentenceType::detect, each logged with its
\* sentence and the type returned.
\* ------------------------------------------------------------------------

MaxDetects == 2

\* Trimmed sentences
Sentences ==
    { <<"W", "h", "a", "t", " ", "t", "i", "m", "e", " ", "i", "s", " ", "i", "t", "?">>, <<"w", "h", "a", "t", "?">>, <<"W", "h", "o", "'", "s", " ", "t", "h", "e", "r", "e", "?">>, <<"w", "h", "o", "s", "e", "?">>, <<"W", "H", "Y", "?">>, <<"h", "o", "w", "?">>,
      <<"A", "r", "e", " ", "y", "o", "u", " ", "t", "h", "e", "r", "e", "?">>, <<"h", "o", "w", "e", "v", "e", "r", "?">>, <<"W", "h", "a", "t", "e", "v", "e", "r", "?">>, <<"H", "o", "w", "a", "r", "d", "?">>, <<"w", "h", "o", "m", "?">>, <<"w", "h", "e", "n", "e", "v", "e", "r", "?">>,
      <<"iquest", "C", "oacute", "m", "o", " ", "e", "s", "t", "aacute", "s", "?">>, <<"iquest", "q", "u", "eacute", "?">>, <<"iquest", "P", "o", "r", " ", "q", "u", "eacute", "?">>, <<"iquest", "p", "o", "r", " ", "q", "u", "e", "?">>, <<"iquest", "p", "o", "r", "q", "u", "e", "?">>, <<"iquest", "q", "u", "eacute", "d", "a", "t", "e", "?">>,
      <<"iquest", "C", "u", "aacute", "l", " ", "e", "s">>, <<"iquest", "V", "i", "e", "n", "e", "s">>, <<"3", " ", "w", "h", "a", "t", "?">>, <<"?">>, <<"w", "h", "y">>, <<"W", "o", "w", "!">>, <<"iexcl", "H", "o", "l", "a", "!">>, <<"H", "e", "l", "l", "o", ".">> }

InitSentences ==
    /\ synth = NoSynth
    /\ last_call = NoCall
    /\ voice_builder = NoBuilder
    /\ streamer = NoStreamer
    /\ text = NoText
    /\ stream = NoStream
    /\ chunks = <<>>
    /\ audio = NoAudio
    /\ ssml = NoSsml
    /\ engines = NoEngines
    /\ call_log = NoCalls
    /\ g2p = NoG2P

\* SentenceType::detect(t)
CallSentenceTypeDetect(t) ==
    /\ Len(call_log) < MaxDetects
    /\ call_log' = Append(call_log, [op |-> "detect", text |-> t,
                                     result |-> SentenceTypeDetect(t)])
    /\ UNCHANGED <<voice_builder, synth, last_call, streamer, text, stream, chunks,
                   audio, ssml, engines, g2p>>

NextSentences == \E t \in Sentences : CallSentenceTypeDetect(t)

SpecSentences == InitSentences /\ [][NextSentences]_vars

\* ------------------------------------------------------------------------
\* C20
\* ------------------------------------------------------------------------

\* The longest prefix of s made of alphabetic characters
AlphabeticPrefix(s) ==
    SubSeq(s, 1, CHOOSE n \in 0..Len(s) :
                     /\ \A i \in 1..n : IsAlphabetic(s[i])
                     /\ n < Len(s) => ~IsAlphabetic(s[n + 1]))

\* s from its first alphabetic character on
FromFirstLetter(s) ==
    IF \A i \in DOMAIN s : ~IsAlphabetic(s[i]) THEN <<>>
    ELSE SubSeq(s, CHOOSE n \in DOMAIN s :
                       /\ IsAlphabetic(s[n])
                       /\ \A i \in 1..(n - 1) : ~IsAlphabetic(s[i]),
                Len(s))

\* The question words of one word
QuestionWords ==
    { <<"w", "h", "a", "t">>, <<"w", "h", "o">>, <<"w", "h", "e", "r", "e">>, <<"w", "h", "e", "n">>, <<"w", "h", "y">>, <<"h", "o", "w">>, <<"w", "h", "i", "c", "h">>, <<"w", "h", "o", "s", "e">>,
      <<"q", "u", "eacute">>, <<"q", "u", "i", "eacute", "n">>, <<"d", "oacute", "n", "d", "e">>, <<"c", "u", "aacute", "n", "d", "o">>, <<"c", "oacute", "m", "o">>, <<"c", "u", "aacute", "l">> }

\* The first alphabetic word of the sentence is a question word ("por qué"
\* is the word "por" followed by the word "qué")
FirstWordIsQuestionWord(s) ==
    LET content == FromFirstLetter(ToLowercase(s))
        first == AlphabeticPrefix(content)
        after == SubSeq(content, Len(first) + 1, Len(content))
    IN \/ first \in QuestionWords
       \/ /\ first = <<"p", "o", "r">>
          /\ after # <<>>
          /\ after[1] = " "
          /\ AlphabeticPrefix(Tail(after)) = <<"q", "u", "eacute">>

\* C20: on a trimmed sentence that ends with ? or starts with an inverted
\* question mark, detect returns WhQuestion if and only if the first
\* alphabetic word is one of the question words, and Question otherwise
C20_WhQuestionIffQuestionWord ==
    \A i \in DOMAIN call_log :
        (EndsWith(call_log[i].text, <<"?">>) \/ StartsWith(call_log[i].text, <<"iquest">>)) =>
            call_log[i].result =
                IF FirstWordIsQuestionWord(call_log[i].text) THEN "WhQuestion"
                ELSE "Question"

\* What the code does: WhQuestion if and only if the sentence, from its
\* first letter on, begins with the letters of a question word
C20_WhQuestionIffPrefix ==
    \A i \in DOMAIN call_log :
        (EndsWith(call_log[i].text, <<"?">>) \/ StartsWith(call_log[i].text, <<"iquest">>)) =>
            call_log[i].result =
                IF \E w \in QuestionWords \cup {<<"p", "o", "r", " ", "q", "u", "eacute">>} :
                       StartsWith(FromFirstLetter(ToLowercase(call_log[i].text)), w)
                THEN "WhQuestion" ELSE "Question"

\* ------------------------------------------------------------------------
\* Phrases: calls of PhraseAnalyzer::analyze, each logged with its text and
\* the segments returned.
\* ------------------------------------------------------------------------

MaxAnalyzes == 2

PhraseTexts ==
    { <<"H", "e", "l", "l", "o", " ", "w", "o", "r", "l", "d">>, <<"H", "e", "l", "l", "o", ".">>, <<"W", "h", "a", "t", " ", "t", "i", "m", "e", " ", "i", "s", " ", "i", "t", "?">>, <<"A", "r", "e", " ", "y", "o", "u", " ", "t", "h", "e", "r", "e", "?">>, <<"W", "o", "w", "!">>,
      <<"iquest", "C", "oacute", "m", "o", " ", "e", "s", "t", "aacute", "s", "?">>, <<"iexcl", "H", "o", "l", "a", "!">>, <<"iquest", "V", "i", "e", "n", "e", "s", "?">>, <<"iquest", "Q", "u", "eacute">>, <<" ", "H", "e", "l", "l", "o", ".", " ">>, <<"h", "o", "l", "a">>,
      <<"H", "e", "l", "l", "o", ".", " ", "H", "o", "w", " ", "a", "r", "e", " ", "y", "o", "u", "?">>, <<"H", "i", "!", " ", "Y", "e", "s", ".">>, <<"3", ".", "5", " ", "i", "s", " ", "i", "t">>, <<"a", ".", "b">>, <<"a", ".", "B">>, <<>>, <<" ", " ">>, <<"?">> }

InitPhrases ==
    /\ synth = NoSynth
    /\ last_call = NoCall
    /\ voice_builder = NoBuilder
    /\ streamer = NoStreamer
    /\ text = NoText
    /\ stream = NoStream
    /\ chunks = <<>>
    /\ audio = NoAudio
    /\ ssml = NoSsml
    /\ engines = NoEngines
    /\ call_log = NoCalls
    /\ g2p = NoG2P

\* PhraseAnalyzer::analyze(t)
CallAnalyze(t) ==
    /\ Len(call_log) < MaxAnalyzes
    /\ call_log' = Append(call_log, [op |-> "analyze", text |-> t,
                                     result |-> Analyze(t)])
    /\ UNCHANGED <<voice_builder, synth, last_call, streamer, text, stream, chunks,
                   audio, ssml, engines, g2p>>

NextPhrases == \E t \in PhraseTexts : CallAnalyze(t)

SpecPhrases == InitPhrases /\ [][NextPhrases]_vars

\* ------------------------------------------------------------------------
\* C21
\* ------------------------------------------------------------------------

\* The trimmed text is one sentence: no terminator before its last
\* character, and an inverted mark only as its first character
SingleSentence(t) ==
    LET s == Trim(t)
    IN /\ s # <<>>
       /\ \A i \in 1..(Len(s) - 1) : s[i] \notin {".", "!", "?"}
       /\ \A i \in 2..Len(s) : s[i] \notin {<<"iquest">>[1], <<"iexcl">>[1]}

\* The only segment of a single sentence
WholeTextSegment(t) ==
    [text |-> Trim(t),
     prosody |-> FromSentenceType(SentenceTypeDetect(Trim(t))),
     start_position |-> <<0, 1>>,
     end_position |-> <<1, 1>>]

\* C21: for a text that is a single sentence, including a Spanish sentence
\* opened by an inverted question or exclamation mark, analyze returns exactly
\* one segment, from 0 to 1, whose prosody is from_sentence_type(detect(text))
C21_SingleSentenceOneSegment ==
    \A i \in DOMAIN call_log :
        SingleSentence(call_log[i].text) =>
            call_log[i].result = <<WholeTextSegment(call_log[i].text)>>

\* What the code does: the same for the single sentences that do not open
\* with an inverted mark followed by more text
C21_SingleSentenceNoOpener ==
    \A i \in DOMAIN call_log :
        (/\ SingleSentence(call_log[i].text)
         /\ \/ Trim(call_log[i].text)[1] \notin {<<"iquest">>[1], <<"iexcl">>[1]}
            \/ Len(Trim(call_log[i].text)) = 1) =>
            call_log[i].result = <<WholeTextSegment(call_log[i].text)>>

\* analyze of the sentence "Cómo estás?" with its inverted question mark
\* returns two segments: the mark alone as a Question with a Rising contour,
\* then the rest as a WhQuestion
C21_OpenerIsItsOwnSegment ==
    \A i \in DOMAIN call_log :
        call_log[i].text = <<"iquest", "C", "oacute", "m", "o", " ", "e", "s", "t", "aacute", "s", "?">> =>
            /\ Len(call_log[i].result) = 2
            /\ call_log[i].result[1].text = <<"iquest">>
            /\ call_log[i].result[1].prosody.contour = "Rising"
            /\ call_log[i].result[1].end_position = <<2, 15>>
            /\ call_log[i].result[2].text = <<"C", "oacute", "m", "o", " ", "e", "s", "t", "aacute", "s", "?">>
            /\ call_log[i].result[2].prosody.contour = "FallingRising"

\* ------------------------------------------------------------------------
\* Pitch contours: calls of pitch_at_position on one ProsodyConfig, each
\* logged with the config, the position and the multiplier returned.  The
\* fields of ProsodyConfig are public, so the config is any combination of
\* the values below.
\* ------------------------------------------------------------------------

MaxPitchCalls == 2

PitchMultipliers == {<<1, 100>>, <<1, 2>>, <<1, 1>>, <<11, 10>>, <<2, 1>>, <<10, 1>>}
EmphasisValues == {<<0, 1>>, <<3, 10>>, <<1, 2>>, <<1, 1>>}
PitchContours == {"Flat", "Rising", "Falling", "FallingRising", "Emphasized"}
PitchPositions ==
    {<<-1, 1>>, <<-1, 10>>, <<0, 1>>, <<1, 4>>, <<1, 2>>, <<1, 1>>, <<11, 10>>, <<5, 1>>}

PitchConfigs ==
    {[pitch_multiplier |-> m, rate_multiplier |-> <<1, 1>>,
      volume_multiplier |-> <<1, 1>>, contour |-> c, emphasis |-> e] :
        m \in PitchMultipliers, c \in PitchContours, e \in EmphasisValues}

InitPitch ==
    /\ synth = NoSynth
    /\ last_call = NoCall
    /\ voice_builder = NoBuilder
    /\ streamer = NoStreamer
    /\ text = NoText
    /\ stream = NoStream
    /\ chunks = <<>>
    /\ audio = NoAudio
    /\ ssml = NoSsml
    /\ engines = NoEngines
    /\ call_log = NoCalls
    /\ g2p = NoG2P

\* p.pitch_at_position(position), on the config of the earlier calls
CallPitchAtPosition(p, position) ==
    /\ Len(call_log) < MaxPitchCalls
    /\ call_log # <<>> => p = call_log[1].config
    /\ call_log' = Append(call_log, [op |-> "pitch_at_position", config |-> p,
                                     position |-> position,
                                     result |-> PitchAtPosition(p, position)])
    /\ UNCHANGED <<voice_builder, synth, last_call, streamer, text, stream, chunks,
                   audio, ssml, engines, g2p>>

NextPitch == \E p \in PitchConfigs, position \in PitchPositions : CallPitchAtPosition(p, position)

SpecPitch == InitPitch /\ [][NextPitch]_vars

\* ------------------------------------------------------------------------
\* C22
\* ------------------------------------------------------------------------

\* The bound of [0, 1] nearest to a position
NearestBound(position) ==
    IF RatLt(position, <<0, 1>>) THEN <<0, 1>>
    ELSE IF RatLt(<<1, 1>>, position) THEN <<1, 1>>
    ELSE position

\* C22: for every ProsodyConfig with a positive pitch_multiplier and an
\* emphasis in [0, 1], pitch_at_position(1.0) is greater than
\* pitch_at_position(0.0) when the contour is Rising and less when it is
\* Falling, and a position outside [0, 1] gives the value of the nearest bound
C22_PitchContourMonotone ==
    \A i, j \in DOMAIN call_log :
        call_log[i].config = call_log[j].config =>
            /\ (/\ call_log[i].position = <<0, 1>>
                /\ call_log[j].position = <<1, 1>>
                /\ call_log[i].config.contour = "Rising") =>
                  RatLt(call_log[i].result, call_log[j].result)
            /\ (/\ call_log[i].position = <<0, 1>>
                /\ call_log[j].position = <<1, 1>>
                /\ call_log[i].config.contour = "Falling") =>
                  RatLt(call_log[j].result, call_log[i].result)
            /\ call_log[j].position = NearestBound(call_log[i].position) =>
                  call_log[i].result = call_log[j].result

\* A Rising config with emphasis 1 and pitch multiplier 2 has been asked for
\* the pitch at 0 and at 1: 2 * 1.0 * 1.2 and 2 * 1.3 * 1.0
C22_Witness ==
    /\ Len(call_log) = 2
    /\ call_log[1].config.contour = "Rising"
    /\ call_log[1].config.emphasis = <<1, 1>>
    /\ call_log[1].position = <<0, 1>>
    /\ call_log[2].position = <<1, 1>>
    /\ call_log[1].result = <<12, 5>>
    /\ call_log[2].result = <<13, 5>>

\* ------------------------------------------------------------------------
\* C23
\* ------------------------------------------------------------------------

\* n is duration_ms / 1000 * 22050 / (rate / 175), rounded up or down:
\* 22050 * 175 / 1000 = 15435 / 4
SamplesOfOneDivision(n, duration_ms, rate) ==
    /\ (n - 1) * 4 * rate < duration_ms * 15435
    /\ duration_ms * 15435 < (n + 1) * 4 * rate

\* n is what the code computes: the duration divided by the rate multiplier
\* and truncated to whole ms, then the samples of that duration divided by
\* the rate multiplier again
SamplesOfTwoDivisions(n, duration_ms, rate) ==
    n = ((((duration_ms * 175) \div rate) * 15435) \div (4 * rate))

\* The phoneme runs of the audio of synthesize have their number of samples
\* in the given relation to the phoneme's duration and the voice rate
PhonemeSamplesAre(related(_, _, _)) ==
    audio.valid =>
        \A i \in DOMAIN audio.samples :
            audio.samples[i].sym # "_" =>
                related(audio.samples[i].hi - audio.samples[i].lo,
                        InventoryGet(GetInventory(synth.config.language),
                                     audio.samples[i].sym)[1].duration_ms,
                        synth.config.rate)

\* C23: the number of samples synthesize_phonemes produces for a phoneme is
\* duration_ms / 1000 * 22050 / rate_multiplier with rate_multiplier =
\* rate / 175: the rate divides the nominal duration exactly once
C23_RateDividesOnce == PhonemeSamplesAre(SamplesOfOneDivision)

\* What the code does: the rate divides twice
C23_RateDividesTwice == PhonemeSamplesAre(SamplesOfTwoDivisions)

\* ------------------------------------------------------------------------
\* Callback synthesis: one call of synthesize_with_callback on a
\* StreamingSynthesizer.  last_call holds the position in the function,
\* chunks the chunks the stream has yielded, call_log the invocations of
\* the callback with the chunk passed, the answer returned and the stream's
\* current_index at that time.  The callback is any FnMut: its answer is
\* either boolean at every invocation.
\* ------------------------------------------------------------------------

CallbackTexts == {<<>>, <<"1">>, <<"a">>, <<"h", "e", "l", "l", "o">>, <<"t", "h", "e", " ", "c", "a", "t">>, <<"g", "h", " ", "1", "2">>, <<"h", "o", "l", "a">>}

InitCallback ==
    /\ \E sc \in StreamingConfigs :
          /\ streamer = StreamingSynthesizerWithConfig(sc)
          /\ synth = [valid |-> TRUE, config |-> sc.voice]
    /\ voice_builder = NoBuilder
    /\ last_call = NoCall
    /\ text = NoText
    /\ stream = NoStream
    /\ chunks = <<>>
    /\ audio = NoAudio
    /\ ssml = NoSsml
    /\ engines = NoEngines
    /\ call_log = NoCalls
    /\ g2p = NoG2P

UnchangedButCallback ==
    UNCHANGED <<voice_builder, synth, streamer, audio, ssml, engines, g2p>>

\* A loop that goes on whatever the callback answers
AfterCallbackGoOn(answer) == "for"

\* if !callback(chunk) { break; }
AfterCallback(answer) == IF answer THEN "for" ELSE "return"

\* streamer.synthesize_with_callback(t, callback): up to the for loop
CallSynthesizeWithCallback(t) ==
    /\ streamer.valid
    /\ last_call = NoCall
    /\ text' = t
    /\ stream' = SynthesizeStream(streamer.config, t)
    /\ chunks' = <<>>
    /\ call_log' = <<>>
    /\ last_call' = [op |-> "synthesize_with_callback", at |-> "for"]
    /\ UnchangedButCallback

\* for chunk in stream: stream.next() yields a chunk, or the loop ends and
\* the function returns Ok(())
CallbackNext ==
    /\ last_call.op = "synthesize_with_callback"
    /\ last_call.at = "for"
    /\ LET filled == FillBuffer(stream)
       IN IF filled.buffer = <<>>
          THEN /\ stream' = [filled EXCEPT !.exhausted = TRUE]
               /\ last_call' = [op |-> "synthesize_with_callback", at |-> "returned",
                                result |-> "Ok"]
               /\ UNCHANGED chunks
          ELSE LET r == ExtractChunk(filled, filled.is_complete)
               IN /\ stream' = r.stream
                  /\ chunks' = Append(chunks, [chunk |-> r.chunk,
                                               consumed |-> filled.consumed])
                  /\ last_call' = [op |-> "synthesize_with_callback", at |-> "callback"]
    /\ UNCHANGED <<text, call_log>>
    /\ UnchangedButCallback

\* callback(chunk) is invoked with the chunk just yielded and answers
CallbackInvoked(answer) ==
    /\ last_call.op = "synthesize_with_callback"
    /\ last_call.at = "callback"
    /\ call_log' = Append(call_log, [chunk |-> chunks[Len(chunks)].chunk,
                                     answer |-> answer,
                                     current_index |-> stream.current_index])
    /\ last_call' = [op |-> "synthesize_with_callback", at |-> AfterCallback(answer)]
    /\ UNCHANGED <<text, stream, chunks>>
    /\ UnchangedButCallback

\* break: the stream is dropped and the function returns Ok(())
CallbackBreak ==
    /\ last_call.op = "synthesize_with_callback"
    /\ last_call.at = "return"
    /\ last_call' = [op |-> "synthesize_with_callback", at |-> "returned",
                     result |-> "Ok"]
    /\ UNCHANGED <<text, stream, chunks, call_log>>
    /\ UnchangedButCallback

NextCallback ==
    \/ \E t \in CallbackTexts : CallSynthesizeWithCallback(t)
    \/ CallbackNext
    \/ \E answer \in BOOLEAN : CallbackInvoked(answer)
    \/ CallbackBreak

SpecCallback == InitCallback /\ [][NextCallback]_vars

\* ------------------------------------------------------------------------
\* C24
\* ------------------------------------------------------------------------

\* The callback has answered false
CallbackRefused == \E i \in DOMAIN call_log : ~call_log[i].answer

\* C24: the callback gets the stream's chunks in emission order, one call per
\* chunk; after the first call that returns false the callback is not invoked
\* again and no further phoneme is synthesized; the function returns Ok when
\* it stops early and when the stream is drained
C24_CallbackStopsAtFalse ==
    last_call.op = "synthesize_with_callback" =>
        /\ Len(call_log) = IF last_call.at = "callback" THEN Len(chunks) - 1
                           ELSE Len(chunks)
        /\ \A i \in DOMAIN call_log : call_log[i].chunk = chunks[i].chunk
        /\ \A i \in DOMAIN call_log : ~call_log[i].answer => i = Len(call_log)
        /\ CallbackRefused =>
              /\ last_call.at \in {"return", "returned"}
              /\ Len(chunks) = Len(call_log)
              /\ stream.current_index = call_log[Len(call_log)].current_index
        /\ last_call.at = "returned" =>
              /\ last_call.result = "Ok"
              /\ CallbackRefused \/ (stream.exhausted /\ stream.buffer = <<>>)

\* The function has returned after the callback accepted a chunk and refused
\* the next one, with phonemes of the text still to be synthesized
C24_Witness ==
    /\ last_call.op = "synthesize_with_callback"
    /\ last_call.at = "returned"
    /\ Len(call_log) = 2
    /\ call_log[1].answer
    /\ ~call_log[2].answer
    /\ stream.current_index < Len(stream.phoneme_tokens)
    /\ ~stream.exhausted

\* ------------------------------------------------------------------------
\* Inputs: a Synthesizer, a StreamingSynthesizer of the same voice and the
\* voice's G2PConverter, each called on a text; last_call holds the call and
\* what it returned until the caller has taken it.  set_language and set_rate change the voice of both
\* between calls.
\* ------------------------------------------------------------------------

InputTexts == {<<>>, <<" ">>, <<"a">>, <<"h", "e", "l", "l", "o">>, <<"1", "2", "3">>, <<"<", "s", "p", "e", "a", "k", ">", "<", "/", "s", "p", "e", "a", "k", ">">>, <<"<", "s", "p", "e", "a", "k", ">", " ", "<", "/", "s", "p", "e", "a", "k", ">">>, <<"<", "s", "p", "e", "a", "k", ">", "a", "<", "/", "s", "p", "e", "a", "k", ">">>}

InitInputs ==
    /\ synth = [valid |-> TRUE, config |-> VoiceConfigNew("English")]
    /\ streamer = StreamingSynthesizerWithConfig(StreamingConfigDefault)
    /\ last_call = NoCall
    /\ voice_builder = NoBuilder
    /\ text = NoText
    /\ stream = NoStream
    /\ chunks = <<>>
    /\ audio = NoAudio
    /\ ssml = NoSsml
    /\ engines = NoEngines
    /\ call_log = NoCalls
    /\ g2p = NoG2P

UnchangedButInputCall ==
    UNCHANGED <<voice_builder, synth, streamer, text, stream, chunks, audio, ssml,
                engines, call_log, g2p>>

\* synth.synthesize(t)
InputSynthesize(t) ==
    /\ last_call = NoCall
    /\ last_call' = [op |-> "synthesize", text |-> t,
                     result |-> Synthesize(synth.config, t)]
    /\ UnchangedButInputCall

\* synth.synthesize_with_prosody(t)
InputSynthesizeWithProsody(t) ==
    /\ last_call = NoCall
    /\ last_call' = [op |-> "synthesize_with_prosody", text |-> t,
                     result |-> SynthesizeWithProsody(synth.config, t)]
    /\ UnchangedButInputCall

\* synth.synthesize_ssml(t)
InputSynthesizeSsml(t) ==
    /\ last_call = NoCall
    /\ last_call' = [op |-> "synthesize_ssml", text |-> t,
                     result |-> SynthesizeSsml(synth.config, t)]
    /\ UnchangedButInputCall

\* synth.get_g2p().convert(t)
InputConvert(t) ==
    /\ last_call = NoCall
    /\ last_call' = [op |-> "convert", text |-> t,
                     result |-> Convert(GetG2P(synth.config.language), t)]
    /\ UnchangedButInputCall

\* streamer.synthesize_stream(t) and the first next() on the stream: the
\* chunk in a sequence, or the empty sequence for None
InputSynthesizeStream(t) ==
    /\ last_call = NoCall
    /\ last_call' =
          [op |-> "synthesize_stream", text |-> t,
           result |->
              LET filled == FillBuffer(SynthesizeStream(streamer.config, t))
              IN IF filled.buffer = <<>> THEN <<>>
                 ELSE <<ExtractChunk(filled, filled.is_complete).chunk>>]
    /\ UnchangedButInputCall

\* set_language(l) on both synthesizers
InputSetLanguage(l) ==
    /\ last_call = NoCall
    /\ synth' = [synth EXCEPT !.config = SetLanguage(@, l)]
    /\ streamer' = [streamer EXCEPT !.config.voice = SetLanguage(@, l)]
    /\ UNCHANGED <<voice_builder, last_call, text, stream, chunks, audio, ssml,
                   engines, call_log, g2p>>

\* set_rate(r) on both synthesizers
InputSetRate(r) ==
    /\ last_call = NoCall
    /\ synth' = [synth EXCEPT !.config = SetRate(@, r)]
    /\ streamer' = [streamer EXCEPT !.config.voice = SetRate(@, r)]
    /\ UNCHANGED <<voice_builder, last_call, text, stream, chunks, audio, ssml,
                   engines, call_log, g2p>>

\* The caller takes the result
InputReturn ==
    /\ last_call # NoCall
    /\ last_call' = NoCall
    /\ UnchangedButInputCall

NextInputs ==
    \/ \E t \in InputTexts : InputSynthesize(t)
    \/ \E t \in InputTexts : InputSynthesizeWithProsody(t)
    \/ \E t \in InputTexts : InputSynthesizeSsml(t)
    \/ \E t \in InputTexts : InputConvert(t)
    \/ \E t \in InputTexts : InputSynthesizeStream(t)
    \/ \E l \in Languages : InputSetLanguage(l)
    \/ \E r \in VoiceRates : InputSetRate(r)
    \/ InputReturn

SpecInputs == InitInputs /\ [][NextInputs]_vars

\* ------------------------------------------------------------------------
\* C25
\* ------------------------------------------------------------------------

\* Ok(AudioOutput) with no samples, sample_rate 22050 and one channel
EmptyAudio == [valid |-> TRUE, samples |-> <<>>, sample_rate |-> 22050, channels |-> 1]

\* C25: synthesize(""), synthesize_with_prosody(""), synthesize_ssml("") and
\* synthesize_ssml("<speak></speak>") return Ok with an empty sample array
\* (sample_rate 22050, one channel), convert("") returns the empty string,
\* and the stream of synthesize_stream("") yields no chunk
C25_EmptyInputEmptyAudio ==
    /\ (last_call.op \in {"synthesize", "synthesize_with_prosody"}
        /\ last_call.text = <<>>) => last_call.result = EmptyAudio
    /\ (last_call.op = "synthesize_ssml"
        /\ last_call.text \in {<<>>, <<"<", "s", "p", "e", "a", "k", ">", "<", "/", "s", "p", "e", "a", "k", ">">>}) =>
          /\ last_call.result.kind = "Ok"
          /\ last_call.result.audio = EmptyAudio
    /\ (last_call.op = "convert" /\ last_call.text = <<>>) => last_call.result = <<>>
    /\ (last_call.op = "synthesize_stream" /\ last_call.text = <<>>) =>
          last_call.result = <<>>

\* synthesize_ssml("<speak></speak>") has returned for a Spanish voice of
\* rate 350
C25_Witness ==
    /\ last_call.op = "synthesize_ssml"
    /\ last_call.text = <<"<", "s", "p", "e", "a", "k", ">", "<", "/", "s", "p", "e", "a", "k", ">">>
    /\ last_call.result.kind = "Ok"
    /\ last_call.result.audio.samples = <<>>
    /\ synth.config.language = "Spanish"
    /\ synth.config.rate = 350

\* ------------------------------------------------------------------------
\* C26
\* ------------------------------------------------------------------------

\* The phoneme runs of the audio of synthesize carry the pitch_hz of the
\* SynthesisConfig they were generated with, and the given volume
SynthesisConfigOfAudio(gain(_)) ==
    audio.valid =>
        \A i \in DOMAIN audio.samples :
            audio.samples[i].sym # "_" =>
                /\ audio.samples[i].pitch =
                      Rat(BasePitchHz(synth.config.variant) * (200 + synth.config.pitch), 200)
                /\ audio.samples[i].volume = gain(synth.config.volume)

\* volume / 100
VolumeOverHundred(volume) == Rat(volume, 100)

\* volume / 100, at most 1
VolumeOverHundredCapped(volume) == IF volume > 100 THEN <<1, 1>> ELSE Rat(volume, 100)

\* C26: the SynthesisConfig the facade hands to the formant synthesizer has
\* pitch_hz = base F0 * (1 + pitch / 200) and volume = volume / 100 over the
\* whole range of the volume (volume 150 gives a larger gain than volume 100)
C26_SynthesisConfigFromVoice == SynthesisConfigOfAudio(VolumeOverHundred)

\* What the code does: the volume handed over is min(volume / 100, 1.0)
C26_VolumeCappedAtOne == SynthesisConfigOfAudio(VolumeOverHundredCapped)

\* ------------------------------------------------------------------------
\* C27
\* ------------------------------------------------------------------------

\* The samples of the chunks yielded so far, in order
RECURSIVE YieldedSamples(_)
YieldedSamples(cs) ==
    IF cs = <<>> THEN <<>>
    ELSE YieldedSamples(SubSeq(cs, 1, Len(cs) - 1)) \o cs[Len(cs)].chunk.samples

\* The number of samples of the runs of token number tok
RECURSIVE SamplesOfToken(_, _)
SamplesOfToken(runs, tok) ==
    IF runs = <<>> THEN 0
    ELSE (IF Head(runs).tok = tok THEN Head(runs).hi - Head(runs).lo ELSE 0)
         + SamplesOfToken(Tail(runs), tok)

\* The phoneme tokens taken before chunk number i was yielded
ConsumedBefore(i) == IF i = 1 THEN 0 ELSE chunks[i - 1].consumed

\* Every chunk has from 1 to chunk_size samples, and every chunk but the last
\* yielded has chunk_size
ChunkSizesBounded ==
    \A i \in DOMAIN chunks :
        /\ NumSamples(chunks[i].chunk.samples) >= 1
        /\ NumSamples(chunks[i].chunk.samples) <= stream.chunk_size
        /\ i < Len(chunks) => NumSamples(chunks[i].chunk.samples) = stream.chunk_size

\* The last phoneme synthesized for the last chunk was synthesized while the
\* buffer held fewer than chunk_size samples: without its samples, the chunk
\* and what is left in the buffer are fewer than chunk_size
SynthesizedWhileShort ==
    (chunks # <<>> /\ chunks[Len(chunks)].consumed > ConsumedBefore(Len(chunks))) =>
        NumSamples(chunks[Len(chunks)].chunk.samples) + NumSamples(stream.buffer)
            - SamplesOfToken(chunks[Len(chunks)].chunk.samples \o stream.buffer,
                             chunks[Len(chunks)].consumed - 1)
          < stream.chunk_size

\* The chunks and the buffer hold the samples of the tokens 0 .. consumed - 1
\* in order, each token's samples once from its first to its last
ConsumedInOrder ==
    LET runs == Coalesce(YieldedSamples(chunks) \o ToPcm16(stream.buffer))
    IN /\ stream.current_index = stream.consumed
       /\ stream.consumed <= Len(stream.phoneme_tokens)
       /\ \A i \in DOMAIN chunks : ConsumedBefore(i) <= chunks[i].consumed
       /\ \A i \in DOMAIN runs :
             /\ runs[i].lo = 0
             /\ runs[i].tok < stream.consumed
             /\ i > 1 => runs[i - 1].tok < runs[i].tok

\* C27: in a streaming session with chunk_size >= 1 every chunk yielded has
\* from 1 to chunk_size samples and every chunk but the last has exactly
\* chunk_size; a phoneme is synthesized only while the buffer holds fewer
\* than chunk_size samples; the phonemes are consumed in order, each once
C27_ChunksFullButLast ==
    (stream.valid /\ stream.chunk_size >= 1) =>
        /\ ChunkSizesBounded
        /\ SynthesizedWhileShort
        /\ ConsumedInOrder

\* Three chunks have been yielded, the last shorter than chunk_size, and
\* the phonemes were consumed over more than one call of next()
C27_Witness ==
    /\ stream.valid
    /\ Len(chunks) = 3
    /\ NumSamples(chunks[3].chunk.samples) < stream.chunk_size
    /\ chunks[1].consumed < chunks[3].consumed
    /\ stream.buffer = <<>>

\* ------------------------------------------------------------------------
\* Draining: one streaming session in which next() goes on being called
\* after it has returned None.  call_log holds what each call of next()
\* returned, chunks the chunks yielded.
\* ------------------------------------------------------------------------

\* Calls of next() after the first None
MaxNoneCalls == 3

DrainTexts == {<<>>, <<"1">>, <<"a">>, <<"h", "e", "l", "l", "o">>, <<"t", "h", "e", " ", "c", "a", "t">>, <<"g", "h", " ", "1", "2">>, <<"h", "o", "l", "a">>, <<"a", " ", "?">>}

InitDrain ==
    /\ \E sc \in StreamingConfigs :
          /\ streamer = StreamingSynthesizerWithConfig(sc)
          /\ synth = [valid |-> TRUE, config |-> sc.voice]
    /\ voice_builder = NoBuilder
    /\ last_call = NoCall
    /\ text = NoText
    /\ stream = NoStream
    /\ chunks = <<>>
    /\ audio = NoAudio
    /\ ssml = NoSsml
    /\ engines = NoEngines
    /\ call_log = NoCalls
    /\ g2p = NoG2P

\* stream = streamer.synthesize_stream(t)
DrainSynthesizeStream(t) ==
    /\ streamer.valid
    /\ ~stream.valid
    /\ text' = t
    /\ stream' = SynthesizeStream(streamer.config, t)
    /\ chunks' = <<>>
    /\ call_log' = <<>>
    /\ UNCHANGED <<voice_builder, synth, last_call, streamer, audio, ssml, engines, g2p>>

\* stream.next(), also after the end of the stream
DrainNext ==
    /\ stream.valid
    /\ Len(SelectSeq(call_log, LAMBDA r : r = "None")) < MaxNoneCalls
    /\ LET filled == FillBuffer(stream)
       IN IF filled.buffer = <<>>
          THEN /\ stream' = [filled EXCEPT !.exhausted = TRUE]
               /\ call_log' = Append(call_log, "None")
               /\ UNCHANGED chunks
          ELSE LET r == ExtractChunk(filled, filled.is_complete)
               IN /\ stream' = r.stream
                  /\ call_log' = Append(call_log, "Some")
                  /\ chunks' = Append(chunks, [chunk |-> r.chunk,
                                               consumed |-> filled.consumed])
    /\ UNCHANGED <<voice_builder, synth, last_call, streamer, text, audio, ssml,
                   engines, g2p>>

NextDrain ==
    \/ \E t \in DrainTexts : DrainSynthesizeStream(t)
    \/ DrainNext

SpecDrain == InitDrain /\ [][NextDrain]_vars

\* ------------------------------------------------------------------------
\* C28
\* ------------------------------------------------------------------------

\* The number of chunks yielded by the first n calls of next()
YieldedBy(n) == Len(SelectSeq(SubSeq(call_log, 1, n), LAMBDA r : r = "Some"))

\* C28: at most one chunk of a session has is_final = true; a final chunk
\* has progress 1.0 and leaves the buffer empty, and the next call of next()
\* returns None; once next() has returned None every later call returns None
C28_NothingAfterTheEnd ==
    stream.valid =>
        /\ Len(chunks) = YieldedBy(Len(call_log))
        /\ \A i, j \in DOMAIN chunks :
              (chunks[i].chunk.is_final /\ chunks[j].chunk.is_final) => i = j
        /\ \A i \in DOMAIN chunks :
              chunks[i].chunk.is_final =>
                  /\ chunks[i].chunk.progress = <<1, 1>>
                  /\ i = Len(chunks)
                  /\ stream.buffer = <<>>
        /\ \A n \in DOMAIN call_log :
              (/\ call_log[n] = "Some"
               /\ chunks[YieldedBy(n)].chunk.is_final
               /\ n < Len(call_log)) => call_log[n + 1] = "None"
        /\ \A m, n \in DOMAIN call_log :
              (m < n /\ call_log[m] = "None") => call_log[n] = "None"

\* A session has yielded two chunks, the second final, and next() has been
\* called three more times
C28_Witness ==
    /\ stream.valid
    /\ call_log = <<"Some", "Some", "None", "None", "None">>
    /\ ~chunks[1].chunk.is_final
    /\ chunks[2].chunk.is_final

\* ------------------------------------------------------------------------
\* C29
\* ------------------------------------------------------------------------

RECURSIVE HasBreakElement(_)

\* Whether a Break element occurs among the elements or below them
HasBreakElement(elements) ==
    \E i \in DOMAIN elements :
        \/ elements[i].kind = "Break"
        \/ /\ elements[i].kind \in {"Prosody", "Emphasis", "Voice", "Paragraph", "Sentence"}
           /\ HasBreakElement(elements[i].children)

\* Whether a text has the form of the break sentinel
SentinelShaped(t) ==
    StartsWith(t, <<"_", "_", "b", "r", "e", "a", "k", "_">>) /\ EndsWith(t, <<"_", "_">>)

\* A segment passed to G2P and synthesized as speech whatever its text
SpokenSegment(c, segment) ==
    IF Trim(segment.text) = <<>> THEN POk(0, <<>>)
    ELSE SpeakPhonemes(CreateFormantSynthesizerWithProsody(c, segment.prosody),
                       Convert(GetG2P(c.language), segment.text),
                       GetInventory(c.language))

RECURSIVE SpokenSegmentsFrom(_, _, _)

\* The segments spoken one after the other
SpokenSegmentsFrom(c, segments, all_samples) ==
    IF segments = <<>>
    THEN SsmlOk(<<>>, AudioOutputNew(all_samples, SAMPLE_RATE, 1))
    ELSE LET added == SpokenSegment(c, Head(segments))
         IN IF added.status # "Ok" THEN SsmlFailed(added)
            ELSE SpokenSegmentsFrom(c, Tail(segments), all_samples \o added.value)

\* A returned call of synthesize_ssml on a document without Break elements
\* whose segments satisfy the condition has spoken every segment
BreaklessDocumentsSpoken(condition(_)) ==
    (ssml.phase = "done" /\ ssml.op = "synthesize_ssml") =>
        LET doc == SsmlParserParse(ssml.input)
        IN (/\ doc.status = "Ok"
            /\ ~HasBreakElement(doc.value)
            /\ \A i \in DOMAIN ToSynthesisSegments(doc.value) :
                  condition(ToSynthesisSegments(doc.value)[i].text))
           => ssml.result = SpokenSegmentsFrom(synth.config,
                                               ToSynthesisSegments(doc.value), <<>>)

AnyText(t) == TRUE

NotSentinelShaped(t) == ~SentinelShaped(t)

\* C29: synthesize_ssml produces the silence of a break only for Break
\* elements: the text of a Text, say-as or sub segment is passed to G2P and
\* synthesized as speech even when it has the form of the break sentinel,
\* for SSML input and for plain text; it is never turned into silence,
\* dropped, or the cause of a panic
C29_SentinelTextIsSpoken == BreaklessDocumentsSpoken(AnyText)

\* What the code does: a document without Break elements is spoken whole
\* when none of its segments has the form of the sentinel
C29_OrdinaryTextIsSpoken == BreaklessDocumentsSpoken(NotSentinelShaped)

\* The plain text __break_5__ has been synthesized: 110 samples of silence
C29_SentinelTextSilenced ==
    /\ ssml.phase = "done"
    /\ ssml.op = "synthesize_ssml"
    /\ ssml.input = <<"_", "_", "b", "r", "e", "a", "k", "_", "5", "_", "_">>
    /\ ssml.result.kind = "Ok"
    /\ ssml.result.audio # SpokenSegmentsFrom(synth.config,
                               <<SynthesisSegment(ssml.input, ProsodyConfigDefault)>>,
                               <<>>).audio

\* ------------------------------------------------------------------------
\* C30
\* ------------------------------------------------------------------------

\* SimpleXmlParser::parse on the trimmed input, as SsmlParser::parse calls it
ParseOfInput(input) == Parse(SimpleXmlParserNew(Trim(input)))

\* A returned call of SsmlParser::parse that ran the SimpleXmlParser to its
\* end has left its position at most extra bytes behind the end of the input
ParserStopsWithin(extra) ==
    (/\ ssml.phase = "done"
     /\ ssml.op = "parse"
     /\ StartsWith(Trim(ssml.input), <<"<">>)
     /\ ssml.result.kind = "Ok")
    => ParseOfInput(ssml.input).pos
           <= InputLen(SimpleXmlParserNew(Trim(ssml.input))) + extra

\* C30: while SimpleXmlParser parses an input its position never exceeds the
\* length of the input, also after it has skipped an unterminated <?
\* declaration or <!-- comment; here for the position at which parse returns
C30_PositionWithinInput == ParserStopsWithin(0)

\* What the code does: self.pos += 2 and self.pos += 3 after skip_until are
\* not bounded by the length, so the position may end up to 3 bytes behind
\* the end of the input
C30_PositionWithinThreeOfEnd == ParserStopsWithin(3)

\* The input <? has been parsed: skip_until has set the position to 2 and
\* self.pos += 2 has set it to 4
C30_PositionBehindEnd ==
    /\ ssml.phase = "done"
    /\ ssml.op = "parse"
    /\ ssml.input = <<"<", "?">>
    /\ ssml.result.kind = "Ok"
    /\ ParseOfInput(ssml.input).pos = 4

=============================================================================
